---- MODULE Spec2Model ----
(***************************************************************************)
(* The persistence-and-scoring engine of AnalytixHub: DatabaseManager      *)
(* (src/database.py) and RankingSystem.recommend_service                   *)
(* (src/ranking_system.py).                                                *)
(*                                                                         *)
(* The database is one record `db` whose fields are the tables, each a set *)
(* (or bag) of rows.  Every `with self.get_connection()` block is one      *)
(* transaction: its statements are applied in order to a working copy of   *)
(* the tables and the block ends in a commit or, when a statement raises,  *)
(* in a rollback.  A storage failure may strike at any statement.          *)
(*                                                                         *)
(* Columns the code never reads back in the operations modelled here are   *)
(* left out of the rows: the id of features, additional_features,          *)
(* feature_weights and rankings rows, the timestamps, and                  *)
(* services.platforms.  Weights and scores are integers: the code adds     *)
(* Python floats, and the sums below are exact in both.                    *)
(***************************************************************************)
EXTENDS Integers, Sequences, FiniteSets, Bags, TLC

VARIABLES
    is_postgres,   \* DatabaseManager.is_postgres, fixed at construction
    db,            \* the committed content of the database
    pc,            \* pc[c]: where client c stands inside calculate_rankings
    cr,            \* cr[c]: the local variables of c's calculate_rankings call
    last,          \* the last transaction or call that ended, and its outcome
    saved,         \* saved[name]: the id the first save of name returned (0:
                   \* not saved yet) and the record of its latest save
    conn,          \* conn[c]: the connection client c holds inside a
                   \* `with self.get_connection()` block that runs in steps
    results,       \* the list results of the scrape_all_services call under way
    checked_out    \* checked_out[c]: the connections client c holds inside
                   \* get_all_services, taken from pg_pool or opened on the file

vars == <<is_postgres, db, pc, cr, last, saved, conn, results, checked_out>>

----------------------------------------------------------------------------
(* Bounds and input sets                                                   *)

\* number of distinct service names the callers save
MaxServices == 2

\* the names of src/scrapers.py in ascending (binary) order, the order of
\* ORDER BY s.name
NameOrder ==
    <<"Any.do", "Asana", "ClickUp", "Microsoft To Do", "Notion", "Todoist", "Trello">>

Names == {NameOrder[i] : i \in 1..MaxServices}

NameIndex(n) == CHOOSE i \in 1..Len(NameOrder) : NameOrder[i] = n

\* name a sorts before name b
NameLess(a, b) == NameIndex(a) < NameIndex(b)

Clients == {1, 2}

\* two of the keys of DEFAULT_WEIGHTS
Contexts == {"personal_use", "enterprise"}

\* the eleven keys of feature_map, in the order of the code
all_features ==
    <<"free_tier", "collaboration", "reminders", "due_dates", "tags_labels",
      "subtasks", "attachments", "offline_mode", "calendar_view",
      "integrations", "api_available">>

CoreFeatures == {all_features[i] : i \in 1..Len(all_features)}

\* "security" is a key of DEFAULT_WEIGHTS['enterprise'] that is no core feature
FeatureNames == CoreFeatures \cup {"security"}

\* a NULL column
NULL == 0

(* The ServiceFeatures records the scrapers hand over (src/base_scraper.py). *)
(* The eleven boolean fields are kept as the map `features`, the feature_map *)
(* of save_service_features.  Variant v of a record sets the features of     *)
(* TrueSets[v] and carries Pricings[v] and Additionals[v].                   *)
TrueSets == <<{}, {"free_tier"}, {"api_available"}, CoreFeatures>>

Pricings == <<"free", "freemium", "paid", "trial">>

Additionals == << <<>>, <<"kanban">>, <<"kanban", "kanban">>, <<"gantt", "kanban">> >>

Variants == DOMAIN TrueSets

ServiceFeatures(n, v) ==
    [name |-> n,
     url |-> "https://service",
     pricing |-> Pricings[v],
     features |-> [f \in CoreFeatures |-> f \in TrueSets[v]],
     additional_features |-> Additionals[v]]

Records == {ServiceFeatures(n, v) : n \in Names, v \in Variants}

----------------------------------------------------------------------------
(* The database                                                            *)

\* the six tables of init_database, in the order of their creation
TableOrder ==
    <<"categories", "services", "features", "additional_features",
      "feature_weights", "rankings">>

TableNames == {TableOrder[i] : i \in 1..Len(TableOrder)}

\* and its five indexes
IndexOrder ==
    <<"idx_services_name", "idx_services_category", "idx_features_service",
      "idx_rankings_context", "idx_categories_slug">>

IndexNames == {IndexOrder[i] : i \in 1..Len(IndexOrder)}

\* the schema of init_database on an empty file
EmptyDb ==
    [tables |-> TableNames,
     indexes |-> IndexNames,
     categories |-> {},
     services |-> {},
     features |-> {},
     additional_features |-> EmptyBag,
     feature_weights |-> {},
     rankings |-> {},
     service_seq |-> 0,
     category_seq |-> 0]

\* the rows of the six tables, without the id sequences
TablesOf(d) ==
    <<d.categories, d.services, d.features, d.additional_features,
      d.feature_weights, d.rankings>>

LegacyService ==
    [id |-> 1, name |-> NameOrder[1], url |-> "https://service",
     pricing |-> "free", category_id |-> NULL]

\* init_database creates the tables only if they do not exist: the file may
\* hold rows written earlier.  Besides the empty database, two such files: a
\* service without any features row, and a service with two features rows,
\* one of them for a name outside the eleven core features.
InitialDatabases ==
    { EmptyDb,
      [EmptyDb EXCEPT !.services = {LegacyService}, !.service_seq = 1],
      [EmptyDb EXCEPT !.services = {LegacyService}, !.service_seq = 1,
                      !.features =
                          {[service_id |-> 1, feature_name |-> "free_tier",
                            is_available |-> TRUE],
                           [service_id |-> 1, feature_name |-> "security",
                            is_available |-> TRUE]}] }

----------------------------------------------------------------------------
(* get_connection: commit on normal completion, rollback and re-raise      *)

\* conn.commit(): the working copy becomes the committed content
Commit(before, working) == working

\* a get_connection that commits in its finally clause
CommitInsteadOfRollback(before, working) == working

\* conn.rollback(): the rows are those before the block.  A PostgreSQL
\* sequence is not transactional: an id drawn by a rolled-back INSERT stays
\* drawn; SQLite's AUTOINCREMENT counter is rolled back with the rows.
Rollback(before, working) ==
    IF is_postgres
    THEN [before EXCEPT !.service_seq = working.service_seq,
                        !.category_seq = working.category_seq]
    ELSE before

\* no connection: none was taken, or it was closed (SQLite) or put back
\* into the pool (PostgreSQL)
NoConn ==
    [state |-> "none", op |-> "", name |-> "", slug |-> "", service_id |-> 0,
     category_id |-> 0, before |-> <<>>, working |-> <<>>, raised |-> "",
     fault |-> "", error |-> "", value |-> <<>>]

\* the exit of the `with self.get_connection()` block
GetConnectionExit(before, working, raised) ==
    IF raised THEN Rollback(before, working) ELSE Commit(before, working)

\* the largest value the services id sequence takes through rolled-back inserts
MaxSeq == MaxServices + 1

\* the largest value the categories id sequence takes
MaxCategorySeq == MaxServices + 1

----------------------------------------------------------------------------
(* save_service_features                                                   *)

\* the statements of the block, in order
SaveStatements(rec) ==
    <<[kind |-> "select", arg |-> ""], [kind |-> "service", arg |-> ""]>>
    \o [i \in 1..Len(all_features) |-> [kind |-> "feature", arg |-> all_features[i]]]
    \o <<[kind |-> "delete", arg |-> ""]>>
    \o [i \in 1..Len(rec.additional_features) |->
           [kind |-> "additional", arg |-> rec.additional_features[i]]]

\* SELECT id FROM services WHERE name = ?; fetchone()
ExistingService(d, name) == {s \in d.services : s.name = name}

\* what INSERT OR REPLACE INTO services would do to the row: the columns it
\* does not name, category_id among them, fall back to their defaults
ReplaceServiceRow(services, sid, rec) ==
    {IF s.id = sid
     THEN [s EXCEPT !.url = rec.url, !.pricing = rec.pricing, !.category_id = NULL]
     ELSE s : s \in services}

\* UPDATE services SET url, pricing, platforms, last_updated WHERE id = ?
UpdateService(services, sid, rec) ==
    {IF s.id = sid THEN [s EXCEPT !.url = rec.url, !.pricing = rec.pricing] ELSE s :
        s \in services}

\* INSERT INTO services (name, url, pricing, platforms, last_updated)
InsertService(d, rec) ==
    [d EXCEPT !.service_seq = d.service_seq + 1,
              !.services = d.services \cup
                  {[id |-> d.service_seq + 1, name |-> rec.name, url |-> rec.url,
                    pricing |-> rec.pricing, category_id |-> NULL]}]

\* INSERT ... ON CONFLICT (service_id, feature_name) DO UPDATE SET is_available
OnConflictUpdateFeature(features, sid, f, v) ==
    IF \E r \in features : r.service_id = sid /\ r.feature_name = f
    THEN {IF r.service_id = sid /\ r.feature_name = f
          THEN [r EXCEPT !.is_available = v] ELSE r : r \in features}
    ELSE features \cup {[service_id |-> sid, feature_name |-> f, is_available |-> v]}

\* INSERT OR REPLACE INTO features: the conflicting row is deleted, the new inserted
InsertOrReplaceFeature(features, sid, f, v) ==
    {r \in features : ~(r.service_id = sid /\ r.feature_name = f)}
        \cup {[service_id |-> sid, feature_name |-> f, is_available |-> v]}

\* INSERT OR IGNORE: the row that is there stays
InsertOrIgnoreFeature(features, sid, f, v) ==
    IF \E r \in features : r.service_id = sid /\ r.feature_name = f
    THEN features
    ELSE features \cup {[service_id |-> sid, feature_name |-> f, is_available |-> v]}

UpsertFeature(features, sid, f, v) ==
    IF is_postgres
    THEN OnConflictUpdateFeature(features, sid, f, v)
    ELSE InsertOrReplaceFeature(features, sid, f, v)

\* a block without the DELETE: the rows of the earlier saves stay
KeepAdditional(additional, sid) == additional

\* DELETE FROM additional_features WHERE service_id = ?
DeleteAdditional(additional, sid) ==
    [r \in {x \in DOMAIN additional : x.service_id # sid} |-> additional[r]]

\* INSERT INTO additional_features (service_id, feature_name)
InsertAdditional(additional, sid, f) ==
    additional (+) SetToBag({[service_id |-> sid, feature_name |-> f]})

\* one statement of the block on the working copy w; row is the result of the
\* SELECT, taken on the content the block started from
ExecSave(w, st, rec, row) ==
    LET sid == IF row # {} THEN (CHOOSE s \in row : TRUE).id ELSE w.service_seq
    IN  CASE st.kind = "select" -> w
          [] st.kind = "service" ->
                IF row # {}
                THEN [w EXCEPT !.services = UpdateService(w.services, sid, rec)]
                ELSE InsertService(w, rec)
          [] st.kind = "feature" ->
                [w EXCEPT !.features =
                    UpsertFeature(w.features, sid, st.arg, rec.features[st.arg])]
          [] st.kind = "delete" ->
                [w EXCEPT !.additional_features =
                    DeleteAdditional(w.additional_features, sid)]
          [] st.kind = "additional" ->
                [w EXCEPT !.additional_features =
                    InsertAdditional(w.additional_features, sid, st.arg)]

RECURSIVE SaveRuns(_, _, _, _, _)
\* the runs of the block from statement i on, w being the working copy the
\* first i - 1 statements left: <<failAt, working>>, where statement failAt
\* raised on working (Len(stmts) + 1: the commit raised), or failAt = 0 and
\* every statement was executed
SaveRuns(w, rec, row, stmts, i) ==
    IF i > Len(stmts) THEN {<<i, w>>, <<0, w>>}
    ELSE {<<i, w>>} \cup SaveRuns(ExecSave(w, stmts[i], rec, row), rec, row, stmts, i + 1)

\* the value of `return service_id`
SavedId(d, working, rec) ==
    LET row == ExistingService(d, rec.name)
    IN  IF row # {} THEN (CHOOSE s \in row : TRUE).id ELSE working.service_seq

\* the record of a transaction or call that ended; the fields an operation
\* does not use keep these values.  stmt names the statement that raised; on
\* a save that succeeded it says whether the save replaced a different record
\* saved before.
Event ==
    [op |-> "none", status |-> "ok", stmt |-> "", done |-> 0,
     name |-> "", context |-> "", given |-> FALSE, arg |-> <<>>,
     weights |-> <<>>, requirements |-> <<>>, value |-> <<>>]

\* no call of the client's calculate_rankings is under way
NoCall ==
    [context |-> "", given |-> FALSE, arg |-> <<>>, weights |-> <<>>,
     scores |-> <<>>]

\* a call that ended with an error raised to the caller
Raised(op, stmt, done) ==
    [Event EXCEPT !.op = op, !.status = "error", !.stmt = stmt, !.done = done]

\* what raised: the kind of statement failAt, or the commit
FailedKind(stmts, failAt) ==
    IF failAt = Len(stmts) + 1 THEN "commit" ELSE stmts[failAt].kind

\* faults tells whether storage failures strike in this call
SaveServiceFeatures(c, rec, faults) ==
    /\ pc[c] = "idle"
    /\ LET stmts == SaveStatements(rec)
           row == ExistingService(db, rec.name)
       IN  \E run \in {r \in SaveRuns(db, rec, row, stmts, 1) : faults \/ r[1] = 0} :
            LET failAt == run[1]
                working == run[2]
                raised == failAt # 0
                service_id == SavedId(db, working, rec)
            IN  /\ raised => working.service_seq <= MaxSeq
                /\ db' = GetConnectionExit(db, working, raised)
                /\ last' =
                     IF raised
                     THEN [Raised("save_service_features",
                                  FailedKind(stmts, failAt), 0)
                             EXCEPT !.name = rec.name]
                     ELSE [Event EXCEPT !.op = "save_service_features",
                                        !.name = rec.name, !.value = <<service_id>>,
                                        !.stmt = IF saved[rec.name].id = 0
                                                    \/ saved[rec.name].rec = rec
                                                 THEN "" ELSE "replaced"]
                /\ saved' =
                     IF raised THEN saved
                     ELSE [saved EXCEPT ![rec.name] =
                             [id |-> IF @.id = 0 THEN service_id ELSE @.id,
                              rec |-> rec]]
    /\ pc' = [pc EXCEPT ![c] = "done"]
    /\ UNCHANGED <<is_postgres, results, checked_out, conn, cr>>

\* the call has returned (or raised) to its caller, which may make the next
Return(c) ==
    /\ pc[c] = "done"
    /\ pc' = [pc EXCEPT ![c] = "idle"]
    /\ last' = Event
    /\ UNCHANGED <<is_postgres, results, checked_out, conn, db, cr, saved>>

----------------------------------------------------------------------------
(* set_feature_weights, get_feature_weights                                *)

\* The weights argument of calculate_rankings: given is FALSE for None
\* (the default), otherwise map is the dict.
None == [given |-> FALSE, map |-> <<>>]

Dict(m) == [given |-> TRUE, map |-> m]

\* Python's truth value of the argument: None and the empty dict are false
Truthy(weights) == weights.given /\ DOMAIN weights.map # {}

\* the order in which the items of a weights dict are visited
FeatureOrder == all_features \o <<"security", "admin_controls">>

Items(m) == SelectSeq(FeatureOrder, LAMBDA f : f \in DOMAIN m)

\* DELETE FROM feature_weights WHERE context = ?
DeleteWeights(feature_weights, context) ==
    {r \in feature_weights : r.context # context}

\* INSERT ... ON CONFLICT (context, feature_name) DO UPDATE SET weight
OnConflictUpdateWeight(feature_weights, context, f, weight) ==
    IF \E r \in feature_weights : r.context = context /\ r.feature_name = f
    THEN {IF r.context = context /\ r.feature_name = f
          THEN [r EXCEPT !.weight = weight] ELSE r : r \in feature_weights}
    ELSE feature_weights \cup
            {[context |-> context, feature_name |-> f, weight |-> weight]}

\* INSERT OR REPLACE INTO feature_weights
InsertOrReplaceWeight(feature_weights, context, f, weight) ==
    {r \in feature_weights : ~(r.context = context /\ r.feature_name = f)}
        \cup {[context |-> context, feature_name |-> f, weight |-> weight]}

UpsertWeight(feature_weights, context, f, weight) ==
    IF is_postgres
    THEN OnConflictUpdateWeight(feature_weights, context, f, weight)
    ELSE InsertOrReplaceWeight(feature_weights, context, f, weight)

\* the statements of set_feature_weights
SetWeightsStatements(weights) ==
    <<[kind |-> "weights_delete", arg |-> ""]>>
    \o [i \in 1..Len(Items(weights)) |->
           [kind |-> "weights_upsert", arg |-> Items(weights)[i]]]

ExecSetWeights(w, st, context, weights) ==
    IF st.kind = "weights_delete"
    THEN [w EXCEPT !.feature_weights = DeleteWeights(w.feature_weights, context)]
    ELSE [w EXCEPT !.feature_weights =
             UpsertWeight(w.feature_weights, context, st.arg, weights[st.arg])]

RECURSIVE SetWeightsRuns(_, _, _, _, _)
\* the runs of the block of set_feature_weights, as SaveRuns
SetWeightsRuns(w, context, weights, stmts, i) ==
    IF i > Len(stmts) THEN {<<i, w>>, <<0, w>>}
    ELSE {<<i, w>>} \cup
         SetWeightsRuns(ExecSetWeights(w, stmts[i], context, weights),
                        context, weights, stmts, i + 1)

\* get_feature_weights: {row['feature_name']: row['weight'] for row in ...}
GetFeatureWeights(d, context) ==
    LET rows == {r \in d.feature_weights : r.context = context}
    IN  [f \in {r.feature_name : r \in rows} |->
            (CHOOSE r \in rows : r.feature_name = f).weight]

\* a fallback list that lacks its last name
FallbackWithoutLast == [f \in CoreFeatures \ {all_features[Len(all_features)]} |-> 1]

\* weights = {f: 1.0 for f in all_features}
FallbackWeights == [f \in CoreFeatures |-> 1]

----------------------------------------------------------------------------
(* calculate_rankings: reading and scoring                                 *)

\* the text of a NULL feature_name in a row of the LEFT JOIN; Python takes
\* None and '' alike for false
NoFeature == ""

RECURSIVE SetToSeq(_)
\* the rows of a set in some order (SQL leaves the order open)
SetToSeq(S) ==
    IF S = {} THEN <<>>
    ELSE LET x == CHOOSE x \in S : TRUE IN <<x>> \o SetToSeq(S \ {x})

RECURSIVE OrderByName(_)
\* ORDER BY name
OrderByName(services) ==
    IF services = {} THEN <<>>
    ELSE LET s == CHOOSE s \in services :
                     \A t \in services : ~NameLess(t.name, s.name)
         IN  <<s>> \o OrderByName(services \ {s})

\* the rows of one service in an inner JOIN: none without a features row
JoinRows(s, features) ==
    LET q == SetToSeq({f \in features : f.service_id = s.id})
    IN  [i \in 1..Len(q) |->
           [id |-> s.id, name |-> s.name, feature_name |-> q[i].feature_name,
            is_available |-> q[i].is_available]]

\* the rows of one service in services s LEFT JOIN features f ON s.id = f.service_id
LeftJoinRows(s, features) ==
    LET fs == {f \in features : f.service_id = s.id}
    IN  IF fs = {}
        THEN <<[id |-> s.id, name |-> s.name, feature_name |-> NoFeature,
                is_available |-> FALSE]>>
        ELSE LET q == SetToSeq(fs)
             IN  [i \in 1..Len(q) |->
                    [id |-> s.id, name |-> s.name,
                     feature_name |-> q[i].feature_name,
                     is_available |-> q[i].is_available]]

RECURSIVE Concat(_, _, _)
Concat(services, features, i) ==
    IF i > Len(services) THEN <<>>
    ELSE LeftJoinRows(services[i], features) \o Concat(services, features, i + 1)

\* cursor.fetchall() of the LEFT JOIN ... ORDER BY s.name
SelectServicesWithFeatures(d) == Concat(OrderByName(d.services), d.features, 1)

\* m[key] = val on a dict
Put(m, key, val) == [x \in DOMAIN m \cup {key} |-> IF x = key THEN val ELSE m[x]]

\* m.get(key, default)
Get(m, key, default) == IF key \in DOMAIN m THEN m[key] ELSE default

\* one turn of `for row in rows` on services_map, a dict in insertion order:
\* a sequence of entries [id, name, features]
GroupRow(services_map, row) ==
    LET known == \E k \in 1..Len(services_map) : services_map[k].id = row.id
        m == IF known THEN services_map
             ELSE Append(services_map,
                         [id |-> row.id, name |-> row.name, features |-> <<>>])
        k == CHOOSE k \in 1..Len(m) : m[k].id = row.id
    IN  IF row.feature_name # NoFeature
        THEN [m EXCEPT ![k].features = Put(@, row.feature_name, row.is_available)]
        ELSE m

RECURSIVE GroupRows(_, _, _)
GroupRows(rows, i, services_map) ==
    IF i > Len(rows) THEN services_map
    ELSE GroupRows(rows, i + 1, GroupRow(services_map, rows[i]))

RECURSIVE ScoreLoop(_, _, _, _)
\* for feature_name, weight in weights.items(): if features.get(...): score += weight
ScoreLoop(features, weights, items, i) ==
    IF i > Len(items) THEN 0
    ELSE (IF Get(features, items[i], FALSE) THEN weights[items[i]] ELSE 0)
         + ScoreLoop(features, weights, items, i + 1)

RECURSIVE PresentLoop(_, _, _, _)
\* a loop that tests `feature_name in features` instead of the value
PresentLoop(features, weights, items, i) ==
    IF i > Len(items) THEN 0
    ELSE (IF items[i] \in DOMAIN features THEN weights[items[i]] ELSE 0)
         + PresentLoop(features, weights, items, i + 1)

ScoreOfPresent(features, weights) == PresentLoop(features, weights, Items(weights), 1)

Score(features, weights) == ScoreLoop(features, weights, Items(weights), 1)

\* the list scores before it is sorted
Scores(services_map, weights) ==
    [k \in 1..Len(services_map) |->
        [service_id |-> services_map[k].id,
         service_name |-> services_map[k].name,
         score |-> Score(services_map[k].features, weights)]]

\* the place of item in a list sorted by ascending score: reverse=True forgotten
InsertAscending(sorted, item) ==
    LET n == Cardinality({k \in 1..Len(sorted) : sorted[k].score <= item.score})
    IN  SubSeq(sorted, 1, n) \o <<item>> \o SubSeq(sorted, n + 1, Len(sorted))

\* the place of item in a sort that is not stable: before the elements of
\* its score
InsertBeforeEqual(sorted, item) ==
    LET n == Cardinality({k \in 1..Len(sorted) : sorted[k].score > item.score})
    IN  SubSeq(sorted, 1, n) \o <<item>> \o SubSeq(sorted, n + 1, Len(sorted))

\* the place of item in a list sorted by descending score: behind every
\* element whose score is not smaller (the sort is stable)
InsertByScore(sorted, item) ==
    LET n == Cardinality({k \in 1..Len(sorted) : sorted[k].score >= item.score})
    IN  SubSeq(sorted, 1, n) \o <<item>> \o SubSeq(sorted, n + 1, Len(sorted))

RECURSIVE SortByScore(_, _, _)
\* list.sort(key=lambda x: x['score'], reverse=True)
SortByScore(list, i, sorted) ==
    IF i > Len(list) THEN sorted
    ELSE SortByScore(list, i + 1, InsertByScore(sorted, list[i]))

\* for i, item in enumerate(scores, 1): item['rank'] = i
Enumerate(scores) ==
    [i \in 1..Len(scores) |->
        [service_id |-> scores[i].service_id,
         service_name |-> scores[i].service_name,
         score |-> scores[i].score,
         rank |-> i]]

\* the list scores, ranked, from the rows read and the effective weights
RankedScores(rows, weights) ==
    Enumerate(SortByScore(Scores(GroupRows(rows, 1, <<>>), weights), 1, <<>>))

----------------------------------------------------------------------------
(* calculate_rankings: persisting the ranks                                *)

\* INSERT ... ON CONFLICT (context, service_id) DO UPDATE SET rank, score, calculated_at
OnConflictUpdateRanking(rankings, context, item) ==
    IF \E r \in rankings : r.context = context /\ r.service_id = item.service_id
    THEN {IF r.context = context /\ r.service_id = item.service_id
          THEN [r EXCEPT !.rank = item.rank, !.score = item.score] ELSE r :
             r \in rankings}
    ELSE rankings \cup
            {[context |-> context, service_id |-> item.service_id,
              rank |-> item.rank, score |-> item.score]}

\* INSERT OR REPLACE INTO rankings
InsertOrReplaceRanking(rankings, context, item) ==
    {r \in rankings : ~(r.context = context /\ r.service_id = item.service_id)}
        \cup {[context |-> context, service_id |-> item.service_id,
               rank |-> item.rank, score |-> item.score]}

\* INSERT OR IGNORE: the row of an earlier run stays
InsertOrIgnoreRanking(rankings, context, item) ==
    IF \E r \in rankings : r.context = context /\ r.service_id = item.service_id
    THEN rankings
    ELSE rankings \cup
            {[context |-> context, service_id |-> item.service_id,
              rank |-> item.rank, score |-> item.score]}

UpsertRanking(rankings, context, item) ==
    IF is_postgres
    THEN OnConflictUpdateRanking(rankings, context, item)
    ELSE InsertOrReplaceRanking(rankings, context, item)

RECURSIVE PersistRuns(_, _, _, _)
\* the runs of the block `for item in scores`, as SaveRuns: statement i is
\* the upsert of scores[i]
PersistRuns(w, context, scores, i) ==
    IF i > Len(scores) THEN {<<i, w>>, <<0, w>>}
    ELSE {<<i, w>>} \cup
         PersistRuns([w EXCEPT !.rankings = UpsertRanking(w.rankings, context, scores[i])],
                     context, scores, i + 1)

\* get_rankings: rankings JOIN services WHERE context = ? ORDER BY rank
RECURSIVE OrderByRank(_)
OrderByRank(rows) ==
    IF rows = {} THEN <<>>
    ELSE LET r == CHOOSE r \in rows : \A t \in rows : r.rank <= t.rank
         IN  <<r>> \o OrderByRank(rows \ {r})

GetRankings(d, context) ==
    OrderByRank({[rank |-> r.rank, score |-> r.score, service_name |-> s.name] :
                    <<r, s>> \in {x \in d.rankings \X d.services :
                                     x[1].context = context /\ x[1].service_id = x[2].id}})

----------------------------------------------------------------------------
(* calculate_rankings, one action for each of its three transactions       *)

\* `if weights: self.set_feature_weights(context, weights)`
CalcSetWeights(c, context, weights, faults) ==
    /\ pc[c] = "idle"
    /\ Truthy(weights)
    /\ LET stmts == SetWeightsStatements(weights.map)
       IN  \E run \in {r \in SetWeightsRuns(db, context, weights.map, stmts, 1) :
                         faults \/ r[1] = 0} :
            LET failAt == run[1]
                raised == failAt # 0
            IN  /\ db' = GetConnectionExit(db, run[2], raised)
                /\ IF raised
                   THEN /\ pc' = [pc EXCEPT ![c] = "done"]
                        /\ cr' = cr
                        /\ last' = [Raised("calculate_rankings",
                                           IF failAt > Len(stmts) THEN "weights_commit"
                                           ELSE stmts[failAt].kind, failAt - 1)
                                      EXCEPT !.context = context, !.given = TRUE,
                                             !.arg = weights.map]
                   ELSE /\ pc' = [pc EXCEPT ![c] = "cr_read"]
                        /\ cr' = [cr EXCEPT ![c] =
                                    [context |-> context, given |-> TRUE,
                                     arg |-> weights.map, weights |-> weights.map,
                                     scores |-> <<>>]]
                        /\ last' = last
    /\ UNCHANGED <<is_postgres, results, checked_out, conn, saved>>

\* `else: weights = self.get_feature_weights(context)` and the fallback
CalcGetWeights(c, context, weights, faults) ==
    /\ pc[c] = "idle"
    /\ ~Truthy(weights)
    /\ \E raised \in {FALSE, faults} :
        /\ db' = GetConnectionExit(db, db, raised)
        /\ IF raised
           THEN /\ pc' = [pc EXCEPT ![c] = "done"]
                /\ cr' = cr
                /\ last' = [Raised("calculate_rankings", "get_weights", 0)
                              EXCEPT !.context = context, !.given = weights.given,
                                     !.arg = weights.map]
           ELSE /\ pc' = [pc EXCEPT ![c] = "cr_read"]
                /\ cr' = [cr EXCEPT ![c] =
                            [context |-> context, given |-> weights.given,
                             arg |-> weights.map,
                             weights |->
                                 LET stored == GetFeatureWeights(db, context)
                                 IN  IF DOMAIN stored = {} THEN FallbackWeights
                                     ELSE stored,
                             scores |-> <<>>]]
                /\ last' = last
    /\ UNCHANGED <<is_postgres, results, checked_out, conn, saved>>

\* the second block: the LEFT JOIN is read, then the scores are computed,
\* sorted and ranked outside any transaction
CalcRead(c, faults) ==
    /\ pc[c] = "cr_read"
    /\ \E raised \in {FALSE, faults} :
        /\ db' = GetConnectionExit(db, db, raised)
        /\ IF raised
           THEN /\ pc' = [pc EXCEPT ![c] = "done"]
                /\ cr' = [cr EXCEPT ![c] = NoCall]
                /\ last' = [Raised("calculate_rankings", "select", 0)
                              EXCEPT !.context = cr[c].context, !.given = cr[c].given,
                                     !.arg = cr[c].arg, !.weights = cr[c].weights]
           ELSE /\ pc' = [pc EXCEPT ![c] = "cr_persist"]
                /\ cr' = [cr EXCEPT ![c].scores =
                            RankedScores(SelectServicesWithFeatures(db), cr[c].weights)]
                /\ last' = last
    /\ UNCHANGED <<is_postgres, results, checked_out, conn, saved>>

\* the third block: every item of scores is upserted, then `return scores`
CalcPersist(c, faults) ==
    /\ pc[c] = "cr_persist"
    /\ \E run \in {r \in PersistRuns(db, cr[c].context, cr[c].scores, 1) :
                     faults \/ r[1] = 0} :
        LET failAt == run[1]
            raised == failAt # 0
            call == [Event EXCEPT !.op = "calculate_rankings",
                                  !.context = cr[c].context, !.given = cr[c].given,
                                  !.arg = cr[c].arg, !.weights = cr[c].weights]
        IN  /\ db' = GetConnectionExit(db, run[2], raised)
            /\ last' =
                 IF raised
                 THEN [call EXCEPT !.status = "error",
                                   !.stmt = IF failAt > Len(cr[c].scores)
                                            THEN "ranking_commit" ELSE "ranking_upsert",
                                   !.done = failAt - 1]
                 ELSE [call EXCEPT !.value = cr[c].scores]
    /\ pc' = [pc EXCEPT ![c] = "done"]
    /\ cr' = [cr EXCEPT ![c] = NoCall]
    /\ UNCHANGED <<is_postgres, results, checked_out, conn, saved>>

----------------------------------------------------------------------------
(* RankingSystem.generate_all_rankings (src/ranking_system.py)             *)

\* DEFAULT_WEIGHTS for the contexts of the model, every weight doubled to
\* make it an integer (0.5 is 1, 2.5 is 5)
DEFAULT_WEIGHTS ==
    [context \in Contexts |->
        IF context = "personal_use"
        THEN [free_tier |-> 4, reminders |-> 4, due_dates |-> 3, tags_labels |-> 3,
              subtasks |-> 2, attachments |-> 2, offline_mode |-> 3,
              calendar_view |-> 2, collaboration |-> 1, integrations |-> 2,
              api_available |-> 1]
        ELSE [collaboration |-> 5, api_available |-> 5, integrations |-> 4,
              attachments |-> 3, security |-> 4, admin_controls |-> 4,
              tags_labels |-> 2, subtasks |-> 2, due_dates |-> 2,
              calendar_view |-> 1, offline_mode |-> 1, free_tier |-> 0]]

\* the contexts in the order of DEFAULT_WEIGHTS.items()
ContextOrder == <<"personal_use", "enterprise">>

RECURSIVE SetWeightsAll(_, _, _, _, _)
\* the block of set_feature_weights without storage failure: the rows after
\* its statements from the i-th on
SetWeightsAll(w, context, weights, stmts, i) ==
    IF i > Len(stmts) THEN w
    ELSE LET next == ExecSetWeights(w, stmts[i], context, weights)
         IN  \* asking for a field evaluates next at this turn, not nested in
             \* the turns that follow
             IF next.service_seq < 0 THEN next
             ELSE SetWeightsAll(next, context, weights, stmts, i + 1)

RECURSIVE PersistAll(_, _, _, _)
\* the block `for item in scores` without storage failure
PersistAll(w, context, scores, i) ==
    IF i > Len(scores) THEN w
    ELSE LET next == [w EXCEPT !.rankings = UpsertRanking(w.rankings, context, scores[i])]
         IN  IF next.service_seq < 0 THEN next
             ELSE PersistAll(next, context, scores, i + 1)

\* the weights the scores are computed with
EffectiveWeights(d, context, weights) ==
    LET stored == GetFeatureWeights(d, context)
    IN  IF Truthy(weights) THEN weights.map
        ELSE IF DOMAIN stored = {} THEN FallbackWeights ELSE stored

\* calculate_rankings(context, weights) without storage failure, its three
\* transactions one after the other: the rows it leaves and the list it
\* returns
CalculateRankings(d, context, weights) ==
    LET d1 == IF Truthy(weights)
              THEN SetWeightsAll(d, context, weights.map,
                                 SetWeightsStatements(weights.map), 1)
              ELSE d
    IN  IF d1.service_seq < 0 THEN [db |-> d1, scores |-> <<>>]
        ELSE LET scores == RankedScores(SelectServicesWithFeatures(d1),
                                        EffectiveWeights(d1, context, weights))
             IN  [db |-> PersistAll(d1, context, scores, 1), scores |-> scores]

\* print(f"    Top service: {rankings[0]['service_name']} ..."): rankings[0]
\* of an empty list raises IndexError
PrintTop(rankings) == IF Len(rankings) = 0 THEN "IndexError" ELSE ""

RECURSIVE GenerateLoop(_, _)
\* for context, weights in DEFAULT_WEIGHTS.items(), from the i-th context
\* on: the rows left, the error raised and the contexts done
GenerateLoop(d, i) ==
    IF i > Len(ContextOrder) THEN [db |-> d, raised |-> "", done |-> i - 1]
    ELSE LET context == ContextOrder[i]
             run == CalculateRankings(d, context, Dict(DEFAULT_WEIGHTS[context]))
             error == PrintTop(run.scores)
         IN  IF error # "" THEN [db |-> run.db, raised |-> error, done |-> i - 1]
             ELSE GenerateLoop(run.db, i + 1)

GenerateAllRankings(c) ==
    /\ pc[c] = "idle"
    /\ LET run == GenerateLoop(db, 1)
       IN  /\ db' = run.db
           /\ last' = IF run.raised # ""
                      THEN Raised("generate_all_rankings", run.raised, run.done)
                      ELSE [Event EXCEPT !.op = "generate_all_rankings",
                                         !.done = run.done]
    /\ pc' = [pc EXCEPT ![c] = "done"]
    /\ UNCHANGED <<is_postgres, results, checked_out, conn, cr, saved>>

----------------------------------------------------------------------------
(* get_feature_comparison and recommend_service                            *)

\* the rows of services s JOIN features f ON s.id = f.service_id
\* ORDER BY s.name, f.feature_name: a service without features row has none
RECURSIVE InnerJoin(_, _, _)
InnerJoin(services, features, i) ==
    IF i > Len(services) THEN <<>>
    ELSE (IF \E f \in features : f.service_id = services[i].id
          THEN LeftJoinRows(services[i], features) ELSE <<>>)
         \o InnerJoin(services, features, i + 1)

\* a turn that gives a new entry a value, false, for every core feature
CompareRowWithDefaults(comparison, row) ==
    LET known == \E k \in 1..Len(comparison) : comparison[k].name = row.name
        m == IF known THEN comparison
             ELSE Append(comparison, [name |-> row.name,
                                      features |-> [f \in CoreFeatures |-> FALSE]])
        k == CHOOSE k \in 1..Len(m) : m[k].name = row.name
    IN  [m EXCEPT ![k].features = Put(@, row.feature_name, row.is_available)]

\* one turn of `for row in cursor.fetchall()` on comparison, a dict in
\* insertion order: a sequence of entries [name, features]
CompareRow(comparison, row) ==
    LET known == \E k \in 1..Len(comparison) : comparison[k].name = row.name
        m == IF known THEN comparison
             ELSE Append(comparison, [name |-> row.name, features |-> <<>>])
        k == CHOOSE k \in 1..Len(m) : m[k].name = row.name
    IN  [m EXCEPT ![k].features = Put(@, row.feature_name, row.is_available)]

RECURSIVE CompareRows(_, _, _)
CompareRows(rows, i, comparison) ==
    IF i > Len(rows) THEN comparison
    ELSE LET next == CompareRow(comparison, rows[i])
         IN  \* next has an entry; asking for it evaluates next at this turn,
             \* not nested in the turns that follow
             IF Len(next) = 0 THEN next ELSE CompareRows(rows, i + 1, next)

GetFeatureComparison(d) ==
    CompareRows(InnerJoin(OrderByName(d.services), d.features, 1), 1, <<>>)

\* a filter that takes a feature without row for available
MeetsWithDefaultTrue(features, requirements) ==
    \A feature \in DOMAIN requirements :
        Get(features, feature, TRUE) = requirements[feature]

\* all(features.get(feature, False) == required for ... in requirements.items())
MeetsRequirements(features, requirements) ==
    \A feature \in DOMAIN requirements :
        Get(features, feature, FALSE) = requirements[feature]

\* a lookup that gives a service without rankings row the score 0
RankingOrZero(rankings, service_name) ==
    LET hits == {k \in 1..Len(rankings) : rankings[k].service_name = service_name}
    IN  IF hits = {} THEN <<[name |-> service_name, score |-> 0, rank |-> 0]>>
        ELSE LET k == CHOOSE k \in hits : \A j \in hits : k <= j
             IN  <<[name |-> service_name, score |-> rankings[k].score,
                    rank |-> rankings[k].rank]>>

\* `for ranking in rankings: if ranking['service_name'] == service_name: ...; break`
FirstRanking(rankings, service_name) ==
    LET hits == {k \in 1..Len(rankings) : rankings[k].service_name = service_name}
    IN  IF hits = {} THEN <<>>
        ELSE LET k == CHOOSE k \in hits : \A j \in hits : k <= j
             IN  <<[name |-> service_name, score |-> rankings[k].score,
                    rank |-> rankings[k].rank]>>

RECURSIVE ScoredServices(_, _, _, _)
\* the loop over comparison.items()
ScoredServices(d, comparison, requirements, context) ==
    IF comparison = <<>> THEN <<>>
    ELSE (IF MeetsRequirements(Head(comparison).features, requirements)
          THEN FirstRanking(GetRankings(d, context), Head(comparison).name)
          ELSE <<>>)
         \o ScoredServices(d, Tail(comparison), requirements, context)

\* the filtered list as the loop leaves it, in the order of the names
RecommendUnsorted(d, requirements, context) ==
    ScoredServices(d, GetFeatureComparison(d), requirements, context)

\* recommend_service: the filtered list, sorted by descending score
RecommendService(d, requirements, context) ==
    SortByScore(ScoredServices(d, GetFeatureComparison(d), requirements, context),
                1, <<>>)

Recommend(c, requirements, context, faults) ==
    /\ pc[c] = "idle"
    /\ \E raised \in {FALSE, faults} :
        /\ db' = GetConnectionExit(db, db, raised)
        /\ last' =
             IF raised
             THEN [Raised("recommend_service", "select", 0)
                     EXCEPT !.context = context, !.requirements = requirements]
             ELSE [Event EXCEPT !.op = "recommend_service", !.context = context,
                                !.requirements = requirements,
                                !.value = RecommendService(db, requirements, context)]
    /\ pc' = [pc EXCEPT ![c] = "done"]
    /\ UNCHANGED <<is_postgres, results, checked_out, conn, cr, saved>>

\* a call of get_feature_comparison: one transaction that reads
Compare(c, faults) ==
    /\ pc[c] = "idle"
    /\ \E raised \in {FALSE, faults} :
        /\ db' = GetConnectionExit(db, db, raised)
        /\ last' =
             IF raised
             THEN Raised("get_feature_comparison", "select", 0)
             ELSE [Event EXCEPT !.op = "get_feature_comparison",
                                !.value = GetFeatureComparison(db)]
    /\ pc' = [pc EXCEPT ![c] = "done"]
    /\ UNCHANGED <<is_postgres, results, checked_out, conn, cr, saved>>

----------------------------------------------------------------------------
(* Categories: add_category, assign_service_to_category, get_all_services  *)

\* The category_slug argument: given is FALSE for None
NoSlug == [given |-> FALSE, text |-> ""]

Slug(text) == [given |-> TRUE, text |-> text]

\* Python's truth value of the argument: None and the empty string are false
SlugTruthy(category_slug) == category_slug.given /\ category_slug.text # ""

\* INSERT OR REPLACE INTO categories: the rows that conflict on name or on
\* slug are deleted and a row with a new id is inserted
InsertOrReplaceCategory(d, name, slug) ==
    [d EXCEPT !.category_seq = d.category_seq + 1,
              !.categories =
                  {r \in d.categories : r.name # name /\ r.slug # slug}
                  \cup {[id |-> d.category_seq + 1, name |-> name, slug |-> slug]}]

\* INSERT ... ON CONFLICT (slug) DO UPDATE SET name = EXCLUDED.name, ...: the
\* default of the id column draws from the sequence before the conflict shows
OnConflictUpdateCategory(d, name, slug) ==
    [d EXCEPT !.category_seq = d.category_seq + 1,
              !.categories =
                  IF \E r \in d.categories : r.slug = slug
                  THEN {IF r.slug = slug THEN [r EXCEPT !.name = name] ELSE r :
                           r \in d.categories}
                  ELSE d.categories
                       \cup {[id |-> d.category_seq + 1, name |-> name, slug |-> slug]}]

\* another category has the name
NameConflict(d, name, slug) ==
    \E r \in d.categories : r.name = name /\ r.slug # slug

\* the statement violates UNIQUE(name): ON CONFLICT (slug) does not cover it
NameTaken(d, name, slug) == is_postgres /\ NameConflict(d, name, slug)

UpsertCategory(d, name, slug) ==
    IF is_postgres THEN OnConflictUpdateCategory(d, name, slug)
    ELSE InsertOrReplaceCategory(d, name, slug)

\* cursor.fetchone()['id'] of RETURNING id, or cursor.lastrowid
CategoryId(working, slug) ==
    (CHOOSE r \in working.categories : r.slug = slug).id

\* failAt: 0 nothing failed, 1 the statement raised, 2 the commit raised
AddCategory(c, name, slug, faults) ==
    /\ pc[c] = "idle"
    /\ db.category_seq < MaxCategorySeq
    /\ \E failAt \in {0} \cup (IF faults THEN {1, 2} ELSE {}) :
        LET violates == NameTaken(db, name, slug)
            drawn == [db EXCEPT !.category_seq = db.category_seq + 1]
            working == IF failAt = 1 THEN db
                       ELSE IF violates THEN drawn
                       ELSE UpsertCategory(db, name, slug)
            raised == failAt # 0 \/ violates
        IN  /\ db' = GetConnectionExit(db, working, raised)
            /\ last' =
                 IF raised
                 THEN [Raised("add_category",
                              IF failAt = 2 THEN "commit" ELSE "category", 0)
                         EXCEPT !.name = slug]
                 ELSE [Event EXCEPT !.op = "add_category", !.name = slug,
                                    !.value = <<CategoryId(working, slug)>>]
    /\ pc' = [pc EXCEPT ![c] = "done"]
    /\ UNCHANGED <<is_postgres, results, checked_out, conn, cr, saved>>

\* UPDATE services SET category_id = ? WHERE id = ?
UpdateCategoryId(services, service_id, category_id) ==
    {IF s.id = service_id THEN [s EXCEPT !.category_id = category_id] ELSE s :
        s \in services}

\* the UPDATE gives a services row a category_id no categories row has
DanglingReference(d, service_id, category_id) ==
    /\ \E s \in d.services : s.id = service_id
    /\ \A r \in d.categories : r.id # category_id

\* category_id REFERENCES categories(id): PostgreSQL enforces the reference,
\* SQLite does not unless PRAGMA foreign_keys is set, and it is not
ReferenceViolated(d, service_id, category_id) ==
    /\ is_postgres
    /\ DanglingReference(d, service_id, category_id)

AssignServiceToCategory(c, service_id, category_id, faults) ==
    /\ pc[c] = "idle"
    /\ \E failAt \in {0} \cup (IF faults THEN {1, 2} ELSE {}) :
        LET violates == ReferenceViolated(db, service_id, category_id)
            working == IF failAt = 1 \/ violates THEN db
                       ELSE [db EXCEPT !.services =
                               UpdateCategoryId(db.services, service_id, category_id)]
            raised == failAt # 0 \/ violates
        IN  /\ db' = GetConnectionExit(db, working, raised)
            /\ last' =
                 IF raised
                 THEN Raised("assign_service_to_category",
                             IF failAt = 2 THEN "commit" ELSE "update", 0)
                 ELSE [Event EXCEPT !.op = "assign_service_to_category"]
    /\ pc' = [pc EXCEPT ![c] = "done"]
    /\ UNCHANGED <<is_postgres, results, checked_out, conn, cr, saved>>

\* get_features_for_service: {feature_name: bool(is_available)}
GetFeaturesForService(d, service_id) ==
    [f \in {r.feature_name : r \in {x \in d.features : x.service_id = service_id}} |->
        [service_id |-> service_id, feature_name |-> f, is_available |-> TRUE]
            \in d.features]

\* get_additional_features: the list of the names, in the order of the rows,
\* which SQL leaves open: kept as the names with their multiplicities
GetAdditionalFeatures(d, service_id) ==
    LET rows == {x \in DOMAIN d.additional_features : x.service_id = service_id}
    IN  [n \in {x.feature_name : x \in rows} |->
            d.additional_features[[service_id |-> service_id, feature_name |-> n]]]

\* SELECT id FROM categories WHERE slug = ?; fetchone()
CategoryRow(d, slug) == {r \in d.categories : r.slug = slug}

\* SELECT * FROM services [WHERE category_id = ?] ORDER BY name, or the
\* early `return []`
SelectServices(d, category_slug) ==
    IF SlugTruthy(category_slug)
    THEN LET cat_row == CategoryRow(d, category_slug.text)
         IN  IF cat_row # {}
             THEN OrderByName({s \in d.services :
                                 s.category_id = (CHOOSE r \in cat_row : TRUE).id})
             ELSE <<>>
    ELSE OrderByName(d.services)

\* the list get_all_services returns
AllServices(d, category_slug) ==
    LET services == SelectServices(d, category_slug)
    IN  [k \in 1..Len(services) |->
            [id |-> services[k].id, name |-> services[k].name,
             url |-> services[k].url, pricing |-> services[k].pricing,
             category_id |-> services[k].category_id,
             features |-> GetFeaturesForService(d, services[k].id),
             additional_features |-> GetAdditionalFeatures(d, services[k].id)]]

GetAllServices(c, category_slug, faults) ==
    /\ pc[c] = "idle"
    /\ \E raised \in {FALSE, faults} :
        /\ db' = GetConnectionExit(db, db, raised)
        /\ last' =
             IF raised
             THEN [Raised("get_all_services", "select", 0)
                     EXCEPT !.given = category_slug.given,
                            !.name = category_slug.text]
             ELSE [Event EXCEPT !.op = "get_all_services",
                                !.given = category_slug.given,
                                !.name = category_slug.text,
                                !.value = AllServices(db, category_slug)]
    /\ pc' = [pc EXCEPT ![c] = "done"]
    /\ UNCHANGED <<is_postgres, results, checked_out, conn, cr, saved>>

----------------------------------------------------------------------------
(* get_connection in steps, around the blocks of add_category (which       *)
(* returns from inside its block) and assign_service_to_category (which    *)
(* runs to the end of its block).  A statement and the commit may raise;   *)
(* conn.rollback() and the release of the connection do not.               *)

\* a handler that swallows the error
Swallow(e) == ""

\* `raise e`
Reraise(e) == e

\* the calls whose blocks run in steps
Call(op, name, slug, service_id, category_id) ==
    [NoConn EXCEPT !.op = op, !.name = name, !.slug = slug,
                   !.service_id = service_id, !.category_id = category_id]

\* the connections that are checked out
CheckedOut(cn) == {c \in Clients : cn[c].state # "none"}

\* self.pg_pool.getconn() or sqlite3.connect(), up to the yield
GetConn(c, call) ==
    /\ pc[c] = "idle"
    /\ call.op = "add_category" => db.category_seq < MaxCategorySeq
    /\ conn' = [conn EXCEPT ![c] =
                  [call EXCEPT !.state = "open", !.before = db, !.working = db]]
    /\ pc' = [pc EXCEPT ![c] = "block"]
    /\ UNCHANGED <<is_postgres, results, checked_out, db, cr, last, saved>>

\* the statement of the caller's block
BlockEffect(call, d) ==
    IF call.op = "add_category" THEN UpsertCategory(d, call.name, call.slug)
    ELSE [d EXCEPT !.services =
            UpdateCategoryId(d.services, call.service_id, call.category_id)]

\* the statement violates a constraint
BlockViolates(call, d) ==
    IF call.op = "add_category" THEN NameTaken(d, call.name, call.slug)
    ELSE ReferenceViolated(d, call.service_id, call.category_id)

\* the caller's block: its statement is executed, or raises
Block(c, faults) ==
    /\ pc[c] = "block"
    /\ \E failed \in {FALSE, faults} :
        LET call == conn[c]
            violates == BlockViolates(call, call.working)
            raised == IF failed THEN "OperationalError"
                      ELSE IF violates THEN "IntegrityError" ELSE ""
            working == IF failed THEN call.working
                       ELSE IF violates /\ call.op = "add_category"
                       THEN [call.working EXCEPT !.category_seq = @ + 1]
                       ELSE IF violates THEN call.working
                       ELSE BlockEffect(call, call.working)
        IN  conn' = [conn EXCEPT ![c] =
                       [call EXCEPT !.working = working, !.raised = raised,
                                    !.value = IF raised = "" /\ call.op = "add_category"
                                              THEN <<CategoryId(working, call.slug)>>
                                              ELSE <<>>]]
    /\ pc' = [pc EXCEPT ![c] = "exit"]
    /\ UNCHANGED <<is_postgres, results, checked_out, db, cr, last, saved>>

\* behind the yield: conn.commit(), or `except Exception as e:
\* conn.rollback(); raise e`, which also takes an error of the commit
ExitBlock(c, faults) ==
    /\ pc[c] = "exit"
    /\ \E fault \in {""} \cup (IF faults /\ conn[c].raised = "" THEN {"commit"} ELSE {}) :
        LET error == IF conn[c].raised # "" THEN conn[c].raised
                     ELSE IF fault = "commit" THEN "OperationalError" ELSE ""
        IN  /\ db' = GetConnectionExit(conn[c].before, conn[c].working, error # "")
            /\ conn' = [conn EXCEPT ![c] =
                          [@ EXCEPT !.fault = fault,
                                    !.error = IF error = "" THEN "" ELSE Reraise(error),
                                    !.state = IF error = "" THEN "committed"
                                              ELSE "rolled_back"]]
    /\ pc' = [pc EXCEPT ![c] = "finally"]
    /\ UNCHANGED <<is_postgres, results, checked_out, cr, last, saved>>

\* finally: conn.close() or self.pg_pool.putconn(conn); the caller has the
\* value of the block or the error
Finally(c) ==
    /\ pc[c] = "finally"
    /\ conn' = [conn EXCEPT ![c] = NoConn]
    /\ last' =
         IF conn[c].error # ""
         THEN [Raised(conn[c].op, conn[c].error, 0) EXCEPT !.name = conn[c].slug]
         ELSE [Event EXCEPT !.op = conn[c].op, !.name = conn[c].slug,
                            !.value = conn[c].value]
    /\ pc' = [pc EXCEPT ![c] = "done"]
    /\ UNCHANGED <<is_postgres, results, checked_out, db, cr, saved>>

----------------------------------------------------------------------------
(* init_database                                                           *)

\* a database without schema: a new file, or a new PostgreSQL database
NoSchema == [EmptyDb EXCEPT !.tables = {}, !.indexes = {}]

\* the statements of the block: CREATE TABLE IF NOT EXISTS six times, then,
\* inside try/except, CREATE INDEX IF NOT EXISTS five times
InitStatements ==
    [i \in 1..Len(TableOrder) |-> [kind |-> "table", arg |-> TableOrder[i]]]
    \o [i \in 1..Len(IndexOrder) |-> [kind |-> "index", arg |-> IndexOrder[i]]]

\* the object the statement creates is there already
Exists(d, st) ==
    IF st.kind = "table" THEN st.arg \in d.tables ELSE st.arg \in d.indexes

\* a CREATE without IF NOT EXISTS raises on an object that exists
CreateRaisesOnExisting(d, st) == Exists(d, st)

\* with IF NOT EXISTS it does not
CreateRaises(d, st) == FALSE

\* CREATE TABLE / INDEX IF NOT EXISTS: what exists is left as it is
ExecInit(d, st) ==
    IF Exists(d, st) THEN d
    ELSE IF st.kind = "table" THEN [d EXCEPT !.tables = @ \cup {st.arg}]
    ELSE [d EXCEPT !.indexes = @ \cup {st.arg}]

RECURSIVE InitPrefix(_, _, _, _)
\* the run of the statements i..n on d: <<raisedAt, d>>, raisedAt being the
\* statement that raised because its object exists, or 0
InitPrefix(d, stmts, i, n) ==
    IF i > n THEN <<0, d>>
    ELSE IF CreateRaises(d, stmts[i]) THEN <<i, d>>
    ELSE InitPrefix(ExecInit(d, stmts[i]), stmts, i + 1, n)

\* the places a storage failure strikes: no failure (0), a statement, or,
\* on PostgreSQL, the commit; sqlite3 opens no transaction for DDL, and
\* its commit has nothing to do
InitFaults(faults) ==
    {0} \cup (IF faults
              THEN 1..(Len(InitStatements) + (IF is_postgres THEN 1 ELSE 0))
              ELSE {})

\* init_database with a failure at statement failAt.  On SQLite every
\* CREATE is committed as it is executed; on PostgreSQL the block is one
\* transaction, a statement that raises leaves it aborted, and the COMMIT
\* of an aborted transaction is answered by a rollback, without error.
InitDatabase(c, faults) ==
    /\ pc[c] = "idle"
    /\ \E failAt \in InitFaults(faults) :
        LET stmts == InitStatements
            n == Len(stmts)
            upTo == IF failAt = 0 \/ failAt > n THEN n ELSE failAt - 1
            run == InitPrefix(db, stmts, 1, upTo)
            stopped == IF run[1] # 0 THEN run[1] ELSE IF failAt <= n THEN failAt ELSE 0
            working == run[2]
            inTry == stopped # 0 /\ stmts[stopped].kind = "index"
            raised == (stopped # 0 /\ ~inTry) \/ failAt = n + 1
            aborted == is_postgres /\ inTry
        IN  /\ db' = IF is_postgres
                     THEN GetConnectionExit(db, IF aborted THEN db ELSE working, raised)
                     ELSE GetConnectionExit(working, working, raised)
            /\ last' =
                 IF raised
                 THEN Raised("init_database",
                             IF stopped # 0 THEN stmts[stopped].kind ELSE "commit",
                             failAt)
                 ELSE [Event EXCEPT !.op = "init_database", !.done = failAt,
                                    !.stmt = IF inTry THEN "index" ELSE ""]
    /\ pc' = [pc EXCEPT ![c] = "done"]
    /\ UNCHANGED <<is_postgres, results, checked_out, conn, cr, saved>>

----------------------------------------------------------------------------
(* The HTTP handlers of src/api_server.py                                  *)

\* request.args.get(...): None without the parameter
NoArg == [given |-> FALSE, text |-> ""]

Arg(text) == [given |-> TRUE, text |-> text]

\* a GET request: the route, the text of its path parameter, and the query
\* parameters name and category
Request(route, path, name, category) ==
    [route |-> route, path |-> path, name |-> name, category |-> category]

\* get_service_by_name: SELECT * FROM services WHERE name = ?; fetchone()
GetServiceByName(d, name) == {s \in d.services : s.name = name}

\* get_service_with_features: None, here <<>>, for a name without row
GetServiceWithFeatures(d, name) ==
    LET row == GetServiceByName(d, name)
    IN  IF row = {} THEN <<>>
        ELSE LET service == CHOOSE r \in row : TRUE
             IN  <<[id |-> service.id, name |-> service.name,
                    url |-> service.url, pricing |-> service.pricing,
                    category_id |-> service.category_id,
                    features |-> GetFeaturesForService(d, service.id),
                    additional_features |-> GetAdditionalFeatures(d, service.id)]>>

\* get_category_by_slug: None, here <<>>, for a slug without row
GetCategoryBySlug(d, slug) ==
    LET row == CategoryRow(d, slug)
    IN  IF row = {} THEN <<>> ELSE <<CHOOSE r \in row : TRUE>>

\* the status of the response and its body
Response(status, body) == [status |-> status, body |-> body]

\* @app.route('/api/categories/<slug>')
ApiGetCategory(d, slug) ==
    LET category == GetCategoryBySlug(d, slug)
    IN  IF category = <<>> THEN Response(404, <<>>) ELSE Response(200, category)

\* @app.route('/api/services'): `if name:` is false for None and for ''
ApiGetServices(d, name, category) ==
    IF name.given /\ name.text # ""
    THEN LET service == GetServiceWithFeatures(d, name.text)
         IN  IF service = <<>> THEN Response(404, <<>>) ELSE Response(200, service)
    ELSE Response(200, AllServices(d, category))

\* @app.route('/api/rankings/<context>')
ApiGetRankings(d, context) == Response(200, GetRankings(d, context))

\* the parameters a method takes besides self
Parameters(method) ==
    CASE method = "get_feature_comparison" -> {}
      [] method = "recommend_service" -> {"requirements", "context"}

\* Python binds the arguments before the body runs: a keyword the signature
\* does not have raises TypeError
CallRaises(method, keywords) == ~(keywords \subseteq Parameters(method))

\* @app.route('/api/compare'): db.get_feature_comparison(category_slug=category)
\* inside try/except Exception
ApiGetComparison(d, category) ==
    IF CallRaises("get_feature_comparison", {"category_slug"})
    THEN Response(500, <<"TypeError">>)
    ELSE Response(200, GetFeatureComparison(d))

\* the four query parameters get_recommendations reads
RequirementParams == {"free_tier", "collaboration", "offline_mode", "api_available"}

\* requirements = {}; if request.args.get(p) is not None: requirements[p] =
\* (request.args.get(p) == 'true')
Requirements(params) ==
    [p \in {q \in RequirementParams : params[q].given} |-> params[p].text = "true"]

\* request.args.get('context', 'personal_use')
ContextOf(context) == IF context.given THEN context.text ELSE "personal_use"

\* @app.route('/api/recommend'):
\* rs.recommend_service(requirements, context, category_slug=category)
ApiGetRecommendations(d, context, params) ==
    IF CallRaises("recommend_service", {"category_slug"})
    THEN Response(500, <<"TypeError">>)
    ELSE Response(200, RecommendService(d, Requirements(params), ContextOf(context)))

\* a GET request of /api/compare or /api/recommend: the query parameters
\* context and category and the four requirement parameters
Query(route, context, category, params) ==
    [route |-> route, path |-> "", name |-> NoArg, category |-> category,
     context |-> context, params |-> params]

\* the handler of the route of a request
Handle(d, request) ==
    CASE request.route = "/api/categories/<slug>" -> ApiGetCategory(d, request.path)
      [] request.route = "/api/services" ->
            ApiGetServices(d, request.name, request.category)
      [] request.route = "/api/rankings/<context>" -> ApiGetRankings(d, request.path)
      [] request.route = "/api/compare" -> ApiGetComparison(d, request.category)
      [] request.route = "/api/recommend" ->
            ApiGetRecommendations(d, request.context, request.params)

\* a GET request answered: `except Exception as e` turns an error of the
\* storage into status 500
HttpGet(c, request, faults) ==
    /\ pc[c] = "idle"
    /\ \E raised \in {FALSE, faults} :
        LET response == IF raised THEN Response(500, <<>>) ELSE Handle(db, request)
        IN  /\ db' = GetConnectionExit(db, db, raised)
            /\ last' = [Event EXCEPT !.op = "GET", !.arg = request,
                                     !.stmt = IF raised THEN "select" ELSE "",
                                     !.done = response.status,
                                     !.value = response.body]
    /\ pc' = [pc EXCEPT ![c] = "done"]
    /\ UNCHANGED <<is_postgres, results, checked_out, conn, cr, saved>>

----------------------------------------------------------------------------
(* get_all_services in steps, with the connections it holds: its own block *)
(* and, inside the loop over the services, the blocks of                   *)
(* get_features_for_service and get_additional_features                    *)

\* the connections pg_pool hands out at most: SimpleConnectionPool(1, 20),
\* scaled to one connection for each client of the model
maxconn == 2

RECURSIVE TotalOut(_, _)
\* the connections the clients of S hold
TotalOut(out, S) ==
    IF S = {} THEN 0
    ELSE LET c == CHOOSE c \in S : TRUE IN out[c] + TotalOut(out, S \ {c})

\* pg_pool.getconn() raises PoolError when every connection is out;
\* sqlite3.connect() opens one more connection on the file
PoolExhausted(out) == is_postgres /\ TotalOut(out, Clients) >= maxconn

\* the category_slug argument from its text: the empty text stands for None
\* and for '', which get_all_services treats alike
SlugOf(text) == IF text = "" THEN NoSlug ELSE Slug(text)

\* the call raised PoolError having filled done entries
PoolError(category_slug, done) ==
    [Raised("get_all_services", "PoolError", done)
        EXCEPT !.given = category_slug.given, !.name = category_slug.text]

\* the first service of the list that lacks one of the two keys
Pending(list) ==
    {k \in 1..Len(list) :
        {"features", "additional_features"} \ DOMAIN list[k] # {}}

\* `with self.get_connection() as conn:` of get_all_services
EnterGetAllServices(c, category_slug) ==
    /\ pc[c] = "idle"
    /\ IF PoolExhausted(checked_out)
       THEN /\ last' = PoolError(category_slug, 0)
            /\ pc' = [pc EXCEPT ![c] = "done"]
            /\ UNCHANGED <<conn, checked_out>>
       ELSE /\ checked_out' = [checked_out EXCEPT ![c] = @ + 1]
            /\ conn' = [conn EXCEPT ![c] =
                          [Call("get_all_services", "", category_slug.text, 0, 0)
                              EXCEPT !.state = "open"]]
            /\ pc' = [pc EXCEPT ![c] = "services_select"]
            /\ last' = last
    /\ UNCHANGED <<is_postgres, results, db, cr, saved>>

\* the SELECTs of the block: `return []` for a slug without category, which
\* leaves the block through its commit, or services = [dict(row) ...]
SelectAllServices(c) ==
    /\ pc[c] = "services_select"
    /\ LET category_slug == SlugOf(conn[c].slug)
           unknown == /\ SlugTruthy(category_slug)
                      /\ CategoryRow(db, category_slug.text) = {}
           services == SelectServices(db, category_slug)
       IN  IF unknown
           THEN /\ checked_out' = [checked_out EXCEPT ![c] = @ - 1]
                /\ conn' = [conn EXCEPT ![c] = NoConn]
                /\ last' = [Event EXCEPT !.op = "get_all_services",
                                         !.given = category_slug.given,
                                         !.name = category_slug.text]
                /\ pc' = [pc EXCEPT ![c] = "done"]
           ELSE /\ conn' = [conn EXCEPT ![c].value =
                              [k \in 1..Len(services) |->
                                  [id |-> services[k].id, name |-> services[k].name,
                                   url |-> services[k].url,
                                   pricing |-> services[k].pricing,
                                   category_id |-> services[k].category_id]]]
                /\ pc' = [pc EXCEPT ![c] =
                            IF Len(services) = 0 THEN "services_exit"
                            ELSE "services_inner"]
                /\ UNCHANGED <<checked_out, last>>
    /\ UNCHANGED <<is_postgres, results, db, cr, saved>>

\* `with self.get_connection() as conn:` of get_features_for_service or of
\* get_additional_features, called inside the block of get_all_services; a
\* PoolError leaves that block through its rollback
EnterInner(c) ==
    /\ pc[c] = "services_inner"
    /\ IF PoolExhausted(checked_out)
       THEN /\ checked_out' = [checked_out EXCEPT ![c] = @ - 1]
            /\ conn' = [conn EXCEPT ![c] = NoConn]
            /\ last' = PoolError(SlugOf(conn[c].slug),
                                 Len(conn[c].value) - Cardinality(Pending(conn[c].value)))
            /\ pc' = [pc EXCEPT ![c] = "done"]
       ELSE /\ checked_out' = [checked_out EXCEPT ![c] = @ + 1]
            /\ pc' = [pc EXCEPT ![c] = "inner_exit"]
            /\ UNCHANGED <<conn, last>>
    /\ UNCHANGED <<is_postgres, results, db, cr, saved>>

\* the inner block reads its rows, commits and gives its connection back:
\* service['features'] = ..., then service['additional_features'] = ...
ExitInner(c) ==
    /\ pc[c] = "inner_exit"
    /\ LET list == conn[c].value
           k == CHOOSE k \in Pending(list) : \A j \in Pending(list) : k <= j
           service ==
               IF "features" \notin DOMAIN list[k]
               THEN Put(list[k], "features", GetFeaturesForService(db, list[k].id))
               ELSE Put(list[k], "additional_features",
                        GetAdditionalFeatures(db, list[k].id))
           filled == [list EXCEPT ![k] = service]
       IN  /\ conn' = [conn EXCEPT ![c].value = filled]
           /\ pc' = [pc EXCEPT ![c] =
                       IF Pending(filled) = {} THEN "services_exit"
                       ELSE "services_inner"]
    /\ checked_out' = [checked_out EXCEPT ![c] = @ - 1]
    /\ UNCHANGED <<is_postgres, results, db, cr, last, saved>>

\* `return services`: the block commits and gives its connection back
ExitGetAllServices(c) ==
    /\ pc[c] = "services_exit"
    /\ checked_out' = [checked_out EXCEPT ![c] = @ - 1]
    /\ conn' = [conn EXCEPT ![c] = NoConn]
    /\ last' = [Event EXCEPT !.op = "get_all_services",
                             !.given = SlugOf(conn[c].slug).given,
                             !.name = conn[c].slug,
                             !.value = conn[c].value]
    /\ pc' = [pc EXCEPT ![c] = "done"]
    /\ UNCHANGED <<is_postgres, results, db, cr, saved>>

----------------------------------------------------------------------------
(* scrape_all_services (src/main.py)                                       *)

\* the keys of the registry SCRAPERS, in the order of the dict
SCRAPERS ==
    <<"Todoist", "Trello", "Any.do", "Microsoft To Do", "Notion", "Asana", "ClickUp">>

\* the scrapers of the services the model has
Registered == SelectSeq(SCRAPERS, LAMBDA name : name \in Names)

\* where the loop stands after the item that made results n entries long
AfterItem(n) == IF n = Len(Registered) THEN "scrape_return" ELSE "scrape"

\* a loop without the try: the error of an item ends it
StopOnError(n) == "scrape_return"

\* except Exception as e: results.append((name, False, str(e))), and the
\* loop goes on
AfterError(n) == AfterItem(n)

\* an entry of results: (name, True, service_id) or (name, False, str(e))
Result(name, ok, service_id, error) ==
    [name |-> name, ok |-> ok, service_id |-> service_id, error |-> error]

\* results = []
ScrapeAllServices(c) ==
    /\ pc[c] = "idle"
    /\ results' = <<>>
    /\ pc' = [pc EXCEPT ![c] = AfterItem(0)]
    /\ UNCHANGED <<is_postgres, checked_out, conn, db, cr, last, saved>>

\* scraper.scrape() raised: nothing reaches the database
ScrapeFails(c) ==
    /\ pc[c] = "scrape"
    /\ LET name == Registered[Len(results) + 1]
       IN  /\ results' = Append(results, Result(name, FALSE, 0, "scrape"))
           /\ last' = [Raised("scrape", "scrape", 0) EXCEPT !.name = name]
    /\ pc' = [pc EXCEPT ![c] = AfterError(Len(results) + 1)]
    /\ UNCHANGED <<is_postgres, checked_out, conn, db, cr, saved>>

\* one turn of the loop with a page that was read: scraper.scrape() gives
\* the record of some variant, db.save_service_features(features) saves it
\* in its own transaction or raises
ScrapeAndSave(c, variants, faults) ==
    /\ pc[c] = "scrape"
    /\ \E v \in variants :
        LET name == Registered[Len(results) + 1]
            rec == ServiceFeatures(name, v)
            stmts == SaveStatements(rec)
            row == ExistingService(db, rec.name)
        IN  \E run \in {r \in SaveRuns(db, rec, row, stmts, 1) : faults \/ r[1] = 0} :
             LET failAt == run[1]
                 working == run[2]
                 raised == failAt # 0
                 service_id == SavedId(db, working, rec)
             IN  /\ raised => working.service_seq <= MaxSeq
                 /\ db' = GetConnectionExit(db, working, raised)
                 /\ results' =
                      Append(results,
                             IF raised
                             THEN Result(name, FALSE, 0, FailedKind(stmts, failAt))
                             ELSE Result(name, TRUE, service_id, ""))
                 /\ last' =
                      IF raised
                      THEN [Raised("save_service_features",
                                   FailedKind(stmts, failAt), 0)
                              EXCEPT !.name = rec.name]
                      ELSE [Event EXCEPT !.op = "save_service_features",
                                         !.name = rec.name, !.value = <<service_id>>]
                 /\ saved' =
                      IF raised THEN saved
                      ELSE [saved EXCEPT ![rec.name] =
                              [id |-> IF @.id = 0 THEN service_id ELSE @.id,
                               rec |-> rec]]
                 /\ pc' = [pc EXCEPT ![c] =
                             IF raised THEN AfterError(Len(results) + 1)
                             ELSE AfterItem(Len(results) + 1)]
    /\ UNCHANGED <<is_postgres, checked_out, conn, cr>>

\* the summary, and `return results`
ScrapeReturn(c) ==
    /\ pc[c] = "scrape_return"
    /\ last' = [Event EXCEPT !.op = "scrape_all_services", !.value = results]
    /\ results' = <<>>
    /\ pc' = [pc EXCEPT ![c] = "done"]
    /\ UNCHANGED <<is_postgres, checked_out, conn, db, cr, saved>>

----------------------------------------------------------------------------
(* The specifications                                                      *)

Init ==
    /\ is_postgres \in BOOLEAN
    /\ db \in InitialDatabases
    /\ pc = [c \in Clients |-> "idle"]
    /\ cr = [c \in Clients |-> NoCall]
    /\ last = Event
    /\ saved = [n \in Names |-> [id |-> 0, rec |-> ServiceFeatures(n, 1)]]
    /\ conn = [c \in Clients |-> NoConn]
    /\ results = <<>>
    /\ checked_out = [c \in Clients |-> 0]

\* the client of the sequential specifications: one call after the other
SeqClients == {1}

\* the weight vector of the scoring example: a = free_tier, b = api_available
ExampleWeights ==
    [f \in {"free_tier", "api_available"} |-> IF f = "free_tier" THEN 2 ELSE 1]

\* a vector with a negative and a zero weight and a feature that is no core
\* feature
SignedWeights ==
    [f \in {"free_tier", "api_available", "security"} |->
        CASE f = "free_tier" -> -1 [] f = "api_available" -> 0 [] OTHER -> 2]

\* the weights arguments of the callers
WeightArgs == {None, Dict(<<>>), Dict(ExampleWeights), Dict(SignedWeights)}

\* the requirements of the callers of recommend_service
RequirementArgs ==
    { <<>>,
      [f \in {"free_tier"} |-> TRUE],
      [f \in {"free_tier"} |-> FALSE],
      [f \in {"api_available"} |-> FALSE],
      [f \in {"free_tier", "api_available"} |-> f = "free_tier"] }

\* save_service_features alone, with storage failures
SaveNext ==
    \E c \in SeqClients :
        \/ \E rec \in Records : SaveServiceFeatures(c, rec, TRUE)
        \/ Return(c)

SpecSave == Init /\ [][SaveNext]_vars

\* the records of the variants free_tier only and api_available only
TwoVariants == {ServiceFeatures(n, v) : n \in Names, v \in {2, 3}}

\* and of the variant with all eleven features
ThreeVariants == {ServiceFeatures(n, v) : n \in Names, v \in {2, 3, 4}}

\* scoring and ranking in one context, without storage failures: the stored
\* vector, the fallback and the vector of the scoring example
RankNext ==
    \E c \in SeqClients :
        \/ \E rec \in ThreeVariants : SaveServiceFeatures(c, rec, FALSE)
        \/ CalcSetWeights(c, "personal_use", Dict(ExampleWeights), FALSE)
        \/ CalcGetWeights(c, "personal_use", None, FALSE)
        \/ CalcRead(c, FALSE)
        \/ CalcPersist(c, FALSE)
        \/ Return(c)

SpecRank == Init /\ [][RankNext]_vars

\* every weights argument in one context, without storage failures
WeightsNext ==
    \E c \in SeqClients :
        \/ \E rec \in TwoVariants : SaveServiceFeatures(c, rec, FALSE)
        \/ \E weights \in WeightArgs : CalcSetWeights(c, "personal_use", weights, FALSE)
        \/ \E weights \in WeightArgs : CalcGetWeights(c, "personal_use", weights, FALSE)
        \/ CalcRead(c, FALSE)
        \/ CalcPersist(c, FALSE)
        \/ Return(c)

SpecWeights == Init /\ [][WeightsNext]_vars

\* the rankings of two contexts, with storage failures while the ranks are
\* persisted
FrameNext ==
    \E c \in SeqClients :
        \/ \E rec \in TwoVariants : SaveServiceFeatures(c, rec, FALSE)
        \/ CalcSetWeights(c, "enterprise", Dict(ExampleWeights), FALSE)
        \/ \E context \in Contexts : CalcGetWeights(c, context, None, FALSE)
        \/ CalcRead(c, FALSE)
        \/ CalcPersist(c, TRUE)
        \/ Return(c)

SpecFrame == Init /\ [][FrameNext]_vars

\* recommend_service on the rankings of one context
RecommendNext ==
    \E c \in SeqClients :
        \/ \E rec \in TwoVariants : SaveServiceFeatures(c, rec, FALSE)
        \/ CalcSetWeights(c, "personal_use", Dict(ExampleWeights), FALSE)
        \/ CalcGetWeights(c, "personal_use", None, FALSE)
        \/ CalcRead(c, FALSE)
        \/ CalcPersist(c, FALSE)
        \/ \E requirements \in RequirementArgs :
              Recommend(c, requirements, "personal_use", FALSE)
        \/ Return(c)

SpecRecommend == Init /\ [][RecommendNext]_vars

\* get_feature_comparison on what the saves and an earlier life of the
\* database file left in the features table
CompareNext ==
    \E c \in SeqClients :
        \/ \E rec \in TwoVariants : SaveServiceFeatures(c, rec, FALSE)
        \/ Compare(c, FALSE)
        \/ Return(c)

SpecCompare == Init /\ [][CompareNext]_vars

\* the categories of seed_categories.py
CategoryNames == {"Todo Apps", "Note-taking Apps"}

CategorySlugs == {"todo", "notes"}

\* the category_slug arguments: none, the empty string of `?category=`, the
\* slugs of the categories and a slug no category has
SlugArgs == {NoSlug, Slug(""), Slug("passwords")} \cup {Slug(t) : t \in CategorySlugs}

\* get_all_services on services assigned to categories
ServicesNext ==
    \E c \in SeqClients :
        \/ \E n \in Names : SaveServiceFeatures(c, ServiceFeatures(n, 2), FALSE)
        \/ \E name \in CategoryNames, slug \in CategorySlugs :
              AddCategory(c, name, slug, FALSE)
        \/ \E service_id \in 1..MaxServices, category_id \in 1..MaxCategorySeq :
              AssignServiceToCategory(c, service_id, category_id, FALSE)
        \/ \E category_slug \in SlugArgs : GetAllServices(c, category_slug, FALSE)
        \/ Return(c)

SpecServices == Init /\ [][ServicesNext]_vars

\* the calls of add_category and assign_service_to_category
Calls ==
    {Call("add_category", name, slug, 0, 0) :
        name \in CategoryNames, slug \in CategorySlugs}
    \cup {Call("assign_service_to_category", "", "", service_id, category_id) :
             service_id \in 1..MaxServices, category_id \in 1..MaxCategorySeq}

\* the blocks of add_category and assign_service_to_category in steps, with
\* storage failures at the statement and at the commit, on the services an
\* earlier life of the database left
ConnNext ==
    \E c \in SeqClients :
        \/ \E call \in Calls : GetConn(c, call)
        \/ Block(c, TRUE)
        \/ ExitBlock(c, TRUE)
        \/ Finally(c)
        \/ Return(c)

SpecConn == Init /\ [][ConnNext]_vars

\* before the DatabaseManager is constructed: no schema yet, or the schema
\* and the rows of an earlier life
InitBootstrap ==
    /\ is_postgres \in BOOLEAN
    /\ db \in InitialDatabases \cup {NoSchema}
    /\ pc = [c \in Clients |-> "idle"]
    /\ cr = [c \in Clients |-> NoCall]
    /\ last = Event
    /\ saved = [n \in Names |-> [id |-> 0, rec |-> ServiceFeatures(n, 1)]]
    /\ conn = [c \in Clients |-> NoConn]
    /\ results = <<>>
    /\ checked_out = [c \in Clients |-> 0]

\* init_database, run any number of times, with failures of its statements,
\* and saves once the tables exist
BootstrapNext ==
    \E c \in SeqClients :
        \/ InitDatabase(c, TRUE)
        \/ /\ TableNames \subseteq db.tables
           /\ \E n \in Names : SaveServiceFeatures(c, ServiceFeatures(n, 2), FALSE)
        \/ Return(c)

SpecBootstrap == InitBootstrap /\ [][BootstrapNext]_vars

\* two clients whose calculate_rankings calls of one context interleave
\* transaction by transaction: client 1 with the vector of the scoring
\* example or without argument, client 2 with the signed vector.  Services
\* are saved while no calculation is under way.
ConcurrentNext ==
    \/ /\ \A c \in Clients : pc[c] = "idle"
       /\ \E rec \in TwoVariants : SaveServiceFeatures(1, rec, FALSE)
    \/ CalcSetWeights(1, "personal_use", Dict(ExampleWeights), FALSE)
    \/ CalcSetWeights(2, "personal_use", Dict(SignedWeights), FALSE)
    \/ CalcGetWeights(1, "personal_use", None, FALSE)
    \/ \E c \in Clients :
          \/ CalcRead(c, FALSE)
          \/ CalcPersist(c, FALSE)
          \/ Return(c)

SpecConcurrent == Init /\ [][ConcurrentNext]_vars

\* the requests: a category by its slug, a service by its name, the
\* services of a category, the rankings of a context; each with a value
\* the database knows and one it does not know
Requests ==
    {Request("/api/categories/<slug>", slug, NoArg, NoArg) :
        slug \in CategorySlugs \cup {"passwords"}}
    \cup {Request("/api/services", "", Arg(name), NoArg) :
             name \in Names \cup {"Remember The Milk"}}
    \cup {Request("/api/services", "", NoArg, category) :
             category \in {NoArg} \cup {Arg(t) : t \in CategorySlugs \cup {"passwords"}}}
    \cup {Request("/api/rankings/<context>", context, NoArg, NoArg) :
             context \in Contexts}

\* the HTTP handlers on saved services, categories and the rankings of one
\* context, with storage failures under the handlers
ApiNext ==
    \E c \in SeqClients :
        \/ \E n \in Names : SaveServiceFeatures(c, ServiceFeatures(n, 2), FALSE)
        \/ \E slug \in CategorySlugs : AddCategory(c, "Todo Apps", slug, FALSE)
        \/ CalcGetWeights(c, "personal_use", None, FALSE)
        \/ CalcRead(c, FALSE)
        \/ CalcPersist(c, FALSE)
        \/ \E request \in Requests : HttpGet(c, request, TRUE)
        \/ Return(c)

SpecApi == Init /\ [][ApiNext]_vars

\* the requirement parameters of a request: none, free_tier=true,
\* free_tier=false with api_available=true, and offline_mode=yes
ParamArgs ==
    { [p \in RequirementParams |-> NoArg],
      [p \in RequirementParams |-> IF p = "free_tier" THEN Arg("true") ELSE NoArg],
      [p \in RequirementParams |->
          CASE p = "free_tier" -> Arg("false")
            [] p = "api_available" -> Arg("true")
            [] OTHER -> NoArg],
      [p \in RequirementParams |-> IF p = "offline_mode" THEN Arg("yes") ELSE NoArg] }

\* the requests of /api/compare and /api/recommend
QueryRequests ==
    {Query("/api/compare", NoArg, category, [p \in RequirementParams |-> NoArg]) :
        category \in {NoArg, Arg("todo")}}
    \cup {Query("/api/recommend", context, NoArg, params) :
             context \in {NoArg, Arg("enterprise")}, params \in ParamArgs}

\* /api/compare and /api/recommend on saved services and the rankings of
\* the default context, with storage failures under the handlers
QueryNext ==
    \E c \in SeqClients :
        \/ \E rec \in TwoVariants : SaveServiceFeatures(c, rec, FALSE)
        \/ CalcGetWeights(c, "personal_use", None, FALSE)
        \/ CalcRead(c, FALSE)
        \/ CalcPersist(c, FALSE)
        \/ \E request \in QueryRequests : HttpGet(c, request, TRUE)
        \/ Return(c)

SpecQuery == Init /\ [][QueryNext]_vars

\* two clients whose calculate_rankings calls of one context interleave
\* transaction by transaction, and saves by client 2 between them
InterleaveNext ==
    \/ \E rec \in TwoVariants : SaveServiceFeatures(2, rec, FALSE)
    \/ \E c \in Clients :
          \/ CalcGetWeights(c, "personal_use", None, FALSE)
          \/ CalcRead(c, FALSE)
          \/ CalcPersist(c, FALSE)
          \/ Return(c)

SpecInterleave == Init /\ [][InterleaveNext]_vars

\* calculate_rankings with explicit weights, two vectors in turn, on the
\* services an earlier life of the database left, with storage failures in
\* each of its three transactions
AtomicNext ==
    \E c \in SeqClients :
        \/ \E weights \in {Dict(ExampleWeights), Dict(SignedWeights)} :
              CalcSetWeights(c, "personal_use", weights, TRUE)
        \/ CalcRead(c, TRUE)
        \/ CalcPersist(c, TRUE)
        \/ Return(c)

SpecAtomic == Init /\ [][AtomicNext]_vars

\* get_all_services by two clients at once, each without slug or with a
\* slug no category has, on services saved while no call is under way
PoolNext ==
    \/ /\ \A c \in Clients : pc[c] = "idle"
       /\ \E n \in Names : SaveServiceFeatures(1, ServiceFeatures(n, 2), FALSE)
    \/ \E c \in Clients :
          \/ \E category_slug \in {NoSlug, Slug("passwords")} :
                EnterGetAllServices(c, category_slug)
          \/ SelectAllServices(c)
          \/ EnterInner(c)
          \/ ExitInner(c)
          \/ ExitGetAllServices(c)
          \/ Return(c)

SpecPool == Init /\ [][PoolNext]_vars

\* saves, some of them failing, of services that are assigned to a category
\* and ranked under stored weights
UpsertNext ==
    \E c \in SeqClients :
        \/ \E n \in Names : SaveServiceFeatures(c, ServiceFeatures(n, 2), TRUE)
        \/ SaveServiceFeatures(c, ServiceFeatures(NameOrder[1], 3), TRUE)
        \/ AddCategory(c, "Todo Apps", "todo", FALSE)
        \/ AssignServiceToCategory(c, 1, 1, FALSE)
        \/ CalcSetWeights(c, "personal_use", Dict(ExampleWeights), FALSE)
        \/ CalcRead(c, FALSE)
        \/ CalcPersist(c, FALSE)
        \/ Return(c)

SpecUpsert == Init /\ [][UpsertNext]_vars

\* generate_all_rankings on any number of saved services, none included
GenerateNext ==
    \E c \in SeqClients :
        \/ \E rec \in TwoVariants : SaveServiceFeatures(c, rec, FALSE)
        \/ GenerateAllRankings(c)
        \/ Return(c)

SpecGenerate == Init /\ [][GenerateNext]_vars

\* scrape_all_services, any number of times, with pages that cannot be
\* scraped and storage failures in the saves
BatchNext ==
    \E c \in SeqClients :
        \/ ScrapeAllServices(c)
        \/ ScrapeFails(c)
        \/ ScrapeAndSave(c, {2}, TRUE)
        \/ ScrapeReturn(c)
        \/ Return(c)

SpecBatch == Init /\ [][BatchNext]_vars

\* every operation, every input, failures everywhere
Next ==
    \E c \in SeqClients :
        \/ \E rec \in Records : SaveServiceFeatures(c, rec, TRUE)
        \/ \E context \in Contexts, weights \in WeightArgs :
              CalcSetWeights(c, context, weights, TRUE)
        \/ \E context \in Contexts, weights \in WeightArgs :
              CalcGetWeights(c, context, weights, TRUE)
        \/ CalcRead(c, TRUE)
        \/ CalcPersist(c, TRUE)
        \/ \E requirements \in RequirementArgs, context \in Contexts :
              Recommend(c, requirements, context, TRUE)
        \/ Compare(c, TRUE)
        \/ \E name \in CategoryNames, slug \in CategorySlugs :
              AddCategory(c, name, slug, TRUE)
        \/ \E service_id \in 1..MaxServices, category_id \in 1..MaxCategorySeq :
              AssignServiceToCategory(c, service_id, category_id, TRUE)
        \/ \E category_slug \in SlugArgs : GetAllServices(c, category_slug, TRUE)
        \/ \E request \in Requests \cup QueryRequests : HttpGet(c, request, TRUE)
        \/ InitDatabase(c, TRUE)
        \/ \E category_slug \in SlugArgs : EnterGetAllServices(c, category_slug)
        \/ SelectAllServices(c)
        \/ EnterInner(c)
        \/ ExitInner(c)
        \/ ExitGetAllServices(c)
        \/ GenerateAllRankings(c)
        \/ ScrapeAllServices(c)
        \/ ScrapeFails(c)
        \/ ScrapeAndSave(c, Variants, TRUE)
        \/ ScrapeReturn(c)
        \/ Return(c)

Spec == Init /\ [][Next]_vars

----------------------------------------------------------------------------
(* Properties                                                              *)

\* the step is a call of save_service_features that raised
SaveRaised ==
    /\ pc[1] = "idle"
    /\ last'.op = "save_service_features"
    /\ last'.status = "error"

\* C1: save_service_features is atomic: when any statement of its block (or
\* the commit) fails, the error reaches the caller and the services,
\* features and additional_features rows, as all other rows, are those
\* before the call.
C1_SaveIsAtomic == [][SaveRaised => TablesOf(db') = TablesOf(db)]_vars

\* a save of a service that exists failed at the insert of an additional
\* feature: behind the update, the eleven upserts and the delete
C1_Witness ==
    /\ last.op = "save_service_features"
    /\ last.status = "error"
    /\ last.stmt = "additional"
    /\ \E s \in db.services :
          /\ s.name = last.name
          /\ \E f \in db.features : f.service_id = s.id /\ f.is_available

\* C2: upsert round trip: one services row for each name, every save of a
\* name returns the id its first save returned, and for each of the eleven
\* core features the service has one features row, with the value of the
\* latest save.
C2_UpsertRoundTrip ==
    /\ \A n \in Names : Cardinality({s \in db.services : s.name = n}) <= 1
    /\ \A n \in Names :
          saved[n].id # 0 =>
             /\ \E s \in db.services : s.name = n /\ s.id = saved[n].id
             /\ \A f \in CoreFeatures :
                   {r \in db.features :
                       r.service_id = saved[n].id /\ r.feature_name = f}
                   = {[service_id |-> saved[n].id, feature_name |-> f,
                       is_available |-> saved[n].rec.features[f]]}
    /\ (last.op = "save_service_features" /\ last.status = "ok")
          => last.value = <<saved[last.name].id>>

\* a save has just replaced a record with different feature values
C2_Witness ==
    /\ last.op = "save_service_features"
    /\ last.status = "ok"
    /\ last.stmt = "replaced"
    /\ \E f \in CoreFeatures : saved[last.name].rec.features[f]

\* calculate_rankings has just returned its list
CalcReturned == last.op = "calculate_rankings" /\ last.status = "ok"

\* the rankings rows stored for a context
RankingsOf(d, context) == {r \in d.rankings : r.context = context}

\* the service has a features row for f that says available
RecordedTrue(d, service_id, f) ==
    [service_id |-> service_id, feature_name |-> f, is_available |-> TRUE]
        \in d.features

RECURSIVE SumOver(_, _)
\* the sum of w[f] over the features f of S
SumOver(S, w) ==
    IF S = {} THEN 0
    ELSE LET f == CHOOSE f \in S : TRUE IN w[f] + SumOver(S \ {f}, w)

\* C3: the score of a service is the sum of weight[f] over the features f of
\* the effective weight vector that have a features row saying available; a
\* false row, a missing row and a feature outside the weight vector add 0.
C3_ScoreIsWeightedSum ==
    CalcReturned =>
        \A k \in 1..Len(last.value) :
            last.value[k].score =
                SumOver({f \in DOMAIN last.weights :
                            RecordedTrue(db, last.value[k].service_id, f)},
                        last.weights)

\* with weights {a: 2, b: 1}: one service with a only (and a false row for
\* b) scores 2, one with both scores 3
C3_Witness ==
    /\ CalcReturned
    /\ last.weights = ExampleWeights
    /\ {last.value[k].score : k \in 1..Len(last.value)} = {2, 3}
    /\ \E r \in db.features : r.feature_name = "api_available" /\ ~r.is_available

\* C4: ranking monotonicity: in the returned list and in the rows stored for
\* the context after the call, a higher score has a smaller rank, also with
\* zero and negative weights.
C4_RankMonotone ==
    CalcReturned =>
        /\ \A i, j \in 1..Len(last.value) :
              last.value[i].score > last.value[j].score
                 => last.value[i].rank < last.value[j].rank
        /\ \A x, y \in RankingsOf(db, last.context) :
              x.score > y.score => x.rank < y.rank

\* two services ranked with a negative and a zero score
C4_Witness ==
    /\ CalcReturned
    /\ last.weights = SignedWeights
    /\ Len(last.value) = 2
    /\ last.value[1].score = 0
    /\ last.value[2].score < 0
    /\ Cardinality(RankingsOf(db, last.context)) = 2

\* C5: the returned list has one entry for every services row, each service
\* once, a service without features row included with score 0, and the ranks
\* are 1..N.
C5_EveryServiceRanked ==
    CalcReturned =>
        /\ Len(last.value) = Cardinality(db.services)
        /\ {last.value[k].service_id : k \in 1..Len(last.value)}
              = {s.id : s \in db.services}
        /\ {last.value[k].rank : k \in 1..Len(last.value)}
              = 1..Cardinality(db.services)
        /\ \A k \in 1..Len(last.value) :
              (\A r \in db.features : r.service_id # last.value[k].service_id)
                 => last.value[k].score = 0

\* two services, one of them without any features row, ranked 2 with score 0
C5_Witness ==
    /\ CalcReturned
    /\ Len(last.value) = 2
    /\ last.value[2].score = 0
    /\ last.value[1].score > 0
    /\ \A r \in db.features : r.service_id # last.value[2].service_id

\* C6: weight resolution: a weights argument that is given, the empty map
\* included, is the vector the ranking is computed with and the vector stored
\* for the context afterwards; without argument the stored vector is used,
\* and the uniform fallback only when nothing is stored.
C6_GivenWeightsAreUsed ==
    CalcReturned =>
        IF last.given
        THEN /\ last.weights = last.arg
             /\ GetFeatureWeights(db, last.context) = last.arg
        ELSE last.weights =
                IF DOMAIN GetFeatureWeights(db, last.context) = {}
                THEN FallbackWeights
                ELSE GetFeatureWeights(db, last.context)

\* C7: fallback weights: without weights argument and without stored weights
\* for the context, the score of every service is the number of the eleven
\* core features recorded true for it.
C7_FallbackCountsCoreFeatures ==
    (/\ CalcReturned
     /\ ~last.given
     /\ {r \in db.feature_weights : r.context = last.context} = {})
        => \A k \in 1..Len(last.value) :
              last.value[k].score =
                 Cardinality({f \in CoreFeatures :
                                 RecordedTrue(db, last.value[k].service_id, f)})

\* the fallback ranks a service with all eleven features (score 11) above
\* one whose only other true feature is no core feature (score 1)
C7_Witness ==
    /\ CalcReturned
    /\ ~last.given
    /\ {r \in db.feature_weights : r.context = last.context} = {}
    /\ Len(last.value) = 2
    /\ last.value[1].score = Len(all_features)
    /\ last.value[2].score = 1
    /\ RecordedTrue(db, last.value[2].service_id, "security")

\* the step belongs to a call of calculate_rankings
CalcStep ==
    \/ pc[1] \in {"cr_read", "cr_persist"}
    \/ pc[1] = "idle" /\ pc'[1] = "cr_read"
    \/ pc[1] = "idle" /\ last'.op = "calculate_rankings"

\* the step is the third block of calculate_rankings and ends in its commit
PersistCommitted == pc[1] = "cr_persist" /\ last'.status = "ok"

\* C8: when the storage fails while calculate_rankings persists the ranks,
\* after any number of rows were written, the error is raised and the
\* rankings rows are those stored before the call: no step of the call but
\* the committed third block changes a rankings row.
C8_PersistFailureRollsBack ==
    [][(CalcStep /\ ~PersistCommitted) =>
          /\ db'.rankings = db.rankings
          /\ pc[1] = "cr_persist" =>
                /\ last'.op = "calculate_rankings"
                /\ last'.status = "error"]_vars

\* the upsert of the second item raised, behind the upsert of a first item
\* whose stored row has another score than the one just computed for it
C8_Witness ==
    /\ last.op = "calculate_rankings"
    /\ last.status = "error"
    /\ last.stmt = "ranking_upsert"
    /\ last.done = 1
    /\ \E x, y \in RankingsOf(db, last.context) : x.rank = 1 /\ y.rank = 2

\* the rows of the list calculate_rankings returns, as rankings rows
RowsOfList(context, scores) ==
    {[context |-> context, service_id |-> scores[k].service_id,
      rank |-> scores[k].rank, score |-> scores[k].score] : k \in 1..Len(scores)}

\* C9: full replacement per context: after a successful calculate_rankings
\* the rankings rows of the context are the returned list, one row for each
\* service with the rank and score of this run, get_rankings reads that list
\* in its order, and the rows of the other contexts are unchanged.
C9_ContextFullyReplaced ==
    [][PersistCommitted =>
          /\ RankingsOf(db', last'.context) = RowsOfList(last'.context, last'.value)
          /\ Cardinality(RankingsOf(db', last'.context)) = Cardinality(db'.services)
          /\ GetRankings(db', last'.context) =
                [k \in 1..Len(last'.value) |->
                    [rank |-> last'.value[k].rank, score |-> last'.value[k].score,
                     service_name |-> last'.value[k].service_name]]
          /\ \A context \in Contexts \ {last'.context} :
                RankingsOf(db', context) = RankingsOf(db, context)]_vars

\* a run has replaced the rows of its context, in which a service now ranks
\* first that ranks second in the rows of the other context
C9_Witness ==
    /\ CalcReturned
    /\ Len(last.value) = 2
    /\ \E context \in Contexts \ {last.context} :
          \E x \in RankingsOf(db, context) :
             /\ x.service_id = last.value[1].service_id
             /\ x.rank = 2
             /\ x.score # last.value[1].score

\* the recorded value of a feature of a service: false without a row
Recorded(d, name, f) ==
    \E s \in d.services : s.name = name /\ RecordedTrue(d, s.id, f)

\* C10: filter exactness: the services recommend_service returns are those
\* that have a features row, a rankings row in the context, and for every
\* (feature, required) pair of the requirements a recorded value (false
\* without a row) equal to required; features the requirements do not name
\* constrain nothing.
C10_FilterExact ==
    (last.op = "recommend_service" /\ last.status = "ok") =>
        /\ \A k \in 1..Len(last.value) :
              \A f \in DOMAIN last.requirements :
                 Recorded(db, last.value[k].name, f) = last.requirements[f]
        /\ {last.value[k].name : k \in 1..Len(last.value)} =
              {s.name : s \in
                 {s \in db.services :
                    /\ \E r \in db.features : r.service_id = s.id
                    /\ \E r \in RankingsOf(db, last.context) : r.service_id = s.id
                    /\ \A f \in DOMAIN last.requirements :
                          RecordedTrue(db, s.id, f) = last.requirements[f]}}

\* required false for a feature: the service returned has features rows but
\* none for that feature, and a service whose row says available is left out
C10_Witness ==
    /\ last.op = "recommend_service"
    /\ last.status = "ok"
    /\ last.requirements = [f \in {"api_available"} |-> FALSE]
    /\ Len(last.value) = 1
    /\ \E s \in db.services :
          /\ s.name = last.value[1].name
          /\ \E r \in db.features : r.service_id = s.id
          /\ \A r \in db.features :
                r.service_id = s.id => r.feature_name # "api_available"
    /\ \E s \in db.services :
          /\ RecordedTrue(db, s.id, "api_available")
          /\ \E r \in RankingsOf(db, last.context) : r.service_id = s.id

\* recommend_service has returned
Recommended == last.op = "recommend_service" /\ last.status = "ok"

\* the names of the services with a features row that meet the requirements
Qualifying(d, requirements) ==
    {s.name : s \in
        {s \in d.services :
            /\ \E r \in d.features : r.service_id = s.id
            /\ \A f \in DOMAIN requirements :
                  RecordedTrue(d, s.id, f) = requirements[f]}}

\* the rankings rows of a context for the service of a name
RankingRows(d, context, name) ==
    {r \in RankingsOf(d, context) :
        \E s \in d.services : s.id = r.service_id /\ s.name = name}

\* C11: recommend_service returns a qualifying service if and only if a
\* rankings row of the context exists for it: a qualifying service saved
\* after the last calculate_rankings of the context, or in a context never
\* calculated, is absent, and every entry carries the score and the rank of
\* the stored row.
C11_OnlyRankedServices ==
    Recommended =>
        /\ \A name \in Qualifying(db, last.requirements) :
              (\E k \in 1..Len(last.value) : last.value[k].name = name)
                 <=> RankingRows(db, last.context, name) # {}
        /\ \A k \in 1..Len(last.value) :
              /\ last.value[k].name \in Qualifying(db, last.requirements)
              /\ \E r \in RankingRows(db, last.context, last.value[k].name) :
                    /\ last.value[k].score = r.score
                    /\ last.value[k].rank = r.rank
              /\ \A j \in 1..Len(last.value) :
                    last.value[j].name = last.value[k].name => j = k

\* without requirements one service is returned, with the score of its row,
\* and a second service with features rows has no rankings row and is left
\* out
C11_Witness ==
    /\ Recommended
    /\ last.requirements = <<>>
    /\ Len(last.value) = 1
    /\ last.value[1].score > 0
    /\ \E s \in db.services :
          /\ s.name # last.value[1].name
          /\ \E r \in db.features : r.service_id = s.id /\ r.is_available
          /\ \A r \in RankingsOf(db, last.context) : r.service_id # s.id

\* C12: the list recommend_service returns is ordered by non-increasing
\* stored score: of two consecutive entries the earlier has a score greater
\* than or equal to that of the later.
C12_OrderedByScore ==
    Recommended =>
        \A k \in 1..(Len(last.value) - 1) :
            last.value[k].score >= last.value[k + 1].score

\* two entries, the one of the higher score first although its name sorts
\* behind the name of the other
C12_Witness ==
    /\ Recommended
    /\ Len(last.value) = 2
    /\ last.value[1].score > last.value[2].score
    /\ NameLess(last.value[2].name, last.value[1].name)

\* get_feature_comparison has returned
Compared == last.op = "get_feature_comparison" /\ last.status = "ok"

\* the features rows of the service of a name for a feature
FeatureRows(d, name, f) ==
    {r \in d.features :
        /\ r.feature_name = f
        /\ \E s \in d.services : s.id = r.service_id /\ s.name = name}

\* C13: comparison completeness: the map get_feature_comparison returns
\* holds (service name, feature name) -> value if and only if a features
\* row exists for that service and feature, with the value of the row; a
\* pair without row is absent, not false, and no service appears twice.
C13_ComparisonComplete ==
    Compared =>
        /\ \A k, j \in 1..Len(last.value) :
              last.value[k].name = last.value[j].name => k = j
        /\ \A k \in 1..Len(last.value) :
              /\ DOMAIN last.value[k].features # {}
              /\ \A f \in DOMAIN last.value[k].features :
                    FeatureRows(db, last.value[k].name, f) =
                       {r \in FeatureRows(db, last.value[k].name, f) :
                           r.is_available = last.value[k].features[f]}
                    /\ FeatureRows(db, last.value[k].name, f) # {}
        /\ \A name \in Names, f \in FeatureNames :
              FeatureRows(db, name, f) # {} =>
                 \E k \in 1..Len(last.value) :
                    /\ last.value[k].name = name
                    /\ f \in DOMAIN last.value[k].features

\* the map of two services: one with a row that says false, one with rows
\* but none for api_available, which its entry does not hold
C13_Witness ==
    /\ Compared
    /\ Len(last.value) = 2
    /\ \E k \in 1..2 :
          /\ "free_tier" \in DOMAIN last.value[k].features
          /\ "api_available" \notin DOMAIN last.value[k].features
    /\ \E k \in 1..2 :
          /\ "api_available" \in DOMAIN last.value[k].features
          /\ ~last.value[k].features["api_available"]

\* the additional_features rows of a service, with their multiplicities
AdditionalOf(d, sid) ==
    [r \in {x \in DOMAIN d.additional_features : x.service_id = sid} |->
        d.additional_features[r]]

\* the rows a list of additional features makes for a service
RowsOfAdditional(list, sid) ==
    [r \in {[service_id |-> sid, feature_name |-> list[i]] : i \in DOMAIN list} |->
        Cardinality({i \in DOMAIN list : list[i] = r.feature_name})]

\* C15: after a successful save_service_features(record) the
\* additional_features rows of the service are the entries of
\* record.additional_features, as a multiset with its duplicates; no entry of
\* an earlier save remains, and an empty list leaves the service without rows.
C15_AdditionalReplaced ==
    \A n \in Names :
        saved[n].id # 0 =>
            AdditionalOf(db, saved[n].id) =
               RowsOfAdditional(saved[n].rec.additional_features, saved[n].id)

\* a save with the same entry twice has replaced the different list of an
\* earlier save: the entry is stored twice, and a second service saved with
\* the empty list has no row
C15_Witness ==
    /\ last.op = "save_service_features"
    /\ last.status = "ok"
    /\ last.stmt = "replaced"
    /\ saved[last.name].rec.additional_features = <<"kanban", "kanban">>
    /\ BagCardinality(AdditionalOf(db, saved[last.name].id)) = 2
    /\ \E n \in Names \ {last.name} :
          /\ saved[n].id # 0
          /\ saved[n].rec.additional_features = <<>>

\* the step is a call of get_all_services
AllServicesStep == pc[1] = "idle" /\ last'.op = "get_all_services"

\* the list e.value names exactly the services of S, each once, in
\* ascending order of the names
ListsServices(e, S) ==
    /\ {e.value[k].id : k \in 1..Len(e.value)} = {s.id : s \in S}
    /\ Len(e.value) = Cardinality(S)
    /\ \A k \in 1..Len(e.value) :
          \E s \in S : s.id = e.value[k].id /\ s.name = e.value[k].name
    /\ \A k \in 1..(Len(e.value) - 1) :
          NameLess(e.value[k].name, e.value[k + 1].name)

\* the services whose category_id is the id of the category of a slug
ServicesOfSlug(d, slug) ==
    {s \in d.services :
        \E r \in d.categories : r.slug = slug /\ r.id = s.category_id}

\* C14: get_all_services(slug) with a slug that matches no category
\* returns the empty list, raises no error and changes no table;
\* with a known slug it returns the services of that category, without a
\* slug every service, in ascending order of the names.
C14_ServicesBySlug ==
    [][AllServicesStep =>
          /\ last'.status = "ok"
          /\ TablesOf(db') = TablesOf(db)
          /\ IF ~last'.given THEN ListsServices(last', db.services)
             ELSE IF CategoryRow(db, last'.name) = {} THEN last'.value = <<>>
             ELSE ListsServices(last', ServicesOfSlug(db, last'.name))]_vars


\* C16: the scoped connection of get_connection, on both backends: a block
\* that completes, also by a return from inside it, is committed; a block
\* that raises is rolled back and the same error reaches the caller; on both
\* paths the connection is released, so that between calls no connection is
\* checked out.
C16_ScopedConnection ==
    [][/\ pc[1] \in {"idle", "done"} => CheckedOut(conn) = {}
       /\ pc[1] = "finally" =>
             /\ CheckedOut(conn') = {}
             /\ IF conn[1].raised = "" /\ conn[1].fault = ""
                THEN /\ TablesOf(db') = TablesOf(conn[1].working)
                     /\ last'.status = "ok"
                ELSE /\ TablesOf(db') = TablesOf(conn[1].before)
                     /\ last'.status = "error"
                     /\ last'.stmt = IF conn[1].raised # "" THEN conn[1].raised
                                     ELSE "OperationalError"]_vars

\* on PostgreSQL the block of add_category raised on the name of another
\* category: the error has reached the caller, the connection is back in
\* the pool and the categories are those before the call
C16_Witness ==
    /\ is_postgres
    /\ last.op = "add_category"
    /\ last.status = "error"
    /\ last.stmt = "IntegrityError"
    /\ CheckedOut(conn) = {}
    /\ Cardinality(db.categories) = 2

\* the step is a run of init_database; last'.done = 0: no failure struck
InitStep == pc[1] = "idle" /\ last'.op = "init_database"

\* C17: the schema bootstrap is idempotent: init_database on a database
\* that has the schema, with or without rows, raises no error, creates no
\* table or index a second time, and leaves every row of the six tables as
\* it was.
C17_InitIdempotent ==
    [][(InitStep /\ last'.done = 0) =>
          /\ last'.status = "ok"
          /\ TablesOf(db') = TablesOf(db)
          /\ db'.tables = TableNames
          /\ db'.indexes = IndexNames
          /\ (db.tables = TableNames /\ db.indexes = IndexNames) => db' = db]_vars

\* init_database has run again on the schema and the rows a save left
C17_Witness ==
    /\ last.op = "init_database"
    /\ last.status = "ok"
    /\ last.done = 0
    /\ db.features # {}
    /\ \E n \in Names : saved[n].id # 0

\* C18: when one of the five CREATE INDEX statements fails in init_database,
\* no error reaches the caller and, on both backends, the six tables exist
\* once init_database has returned.
C18_TablesDespiteIndexFailure ==
    [][(InitStep /\ last'.done > Len(TableOrder)
                 /\ last'.done <= Len(InitStatements)) =>
          /\ last'.status = "ok"
          /\ TableNames \subseteq db'.tables]_vars

\* C19: last writer wins: when two calculate_rankings calls of one context
\* interleave their transactions and both complete, the rankings rows of
\* the context are the list of the call whose persistence committed last:
\* the rows are the list of the latest call that returned, whatever the
\* other call does before its own persistence commits.
C19_LastWriterWins ==
    CalcReturned =>
        /\ RankingsOf(db, last.context) = RowsOfList(last.context, last.value)
        /\ GetRankings(db, last.context) =
              [k \in 1..Len(last.value) |->
                  [rank |-> last.value[k].rank, score |-> last.value[k].score,
                   service_name |-> last.value[k].service_name]]

\* both calls have returned; the one that persisted last wrote its weights
\* first, so the stored vector is that of the other call, under which the
\* two services rank the other way round
C19_Witness ==
    /\ CalcReturned
    /\ \A c \in Clients : pc[c] = "done"
    /\ last.weights = ExampleWeights
    /\ GetFeatureWeights(db, last.context) = SignedWeights
    /\ Len(last.value) = 2
    /\ last.value[1].score = 2
    /\ last.value[2].score = 1

\* a request was answered and the storage raised no error
Answered == last.op = "GET" /\ last.done # 500

\* what the request names is not in the database: its service name, its
\* category slug, or its context, which has no rankings row
NamesUnknown(d, request) ==
    CASE request.route = "/api/categories/<slug>" -> CategoryRow(d, request.path) = {}
      [] request.route = "/api/services" ->
            IF request.name.given THEN GetServiceByName(d, request.name.text) = {}
            ELSE request.category.given /\ CategoryRow(d, request.category.text) = {}
      [] request.route = "/api/rankings/<context>" -> RankingsOf(d, request.path) = {}

\* C20: not found at the HTTP boundary: GET /api/services?name=<unknown>,
\* GET /api/categories/<unknown slug>, GET /api/services?category=<unknown
\* slug> and GET /api/rankings/<context without rankings> are answered with
\* status 404.
C20_NotFoundIs404 ==
    (Answered /\ NamesUnknown(db, last.arg)) => last.done = 404

\* the request was one of /api/compare and /api/recommend, and the storage
\* raised no error under its handler
QueryServed ==
    /\ last.op = "GET"
    /\ last.stmt = ""
    /\ last.arg.route \in {"/api/compare", "/api/recommend"}

\* C21: GET /api/compare and GET /api/recommend are answered with status 200
\* and the comparison matrix, respectively the recommendation list, whenever
\* the storage raises no error; the requirement map of /api/recommend holds
\* exactly the requirement parameters present in the request, each true iff
\* its text is 'true'.
C21_QueriesAnswer200 ==
    QueryServed =>
        /\ last.done = 200
        /\ last.value =
              IF last.arg.route = "/api/compare" THEN GetFeatureComparison(db)
              ELSE RecommendService(db, Requirements(last.arg.params),
                                    ContextOf(last.arg.context))

\* C22: tie-break: among services of equal score the one with the smaller
\* name gets the smaller rank, so the ranks are a function of the scores and
\* the names: entry i ranks before entry j exactly when its score is higher,
\* or equal with a smaller name; two runs on the same rows and weights
\* return the same ranks.
C22_TiesByName ==
    CalcReturned =>
        \A i, j \in 1..Len(last.value) :
            last.value[i].rank < last.value[j].rank
               <=> \/ last.value[i].score > last.value[j].score
                   \/ /\ last.value[i].score = last.value[j].score
                      /\ NameLess(last.value[i].service_name,
                                  last.value[j].service_name)

\* two services of equal score, the one with the smaller name saved later,
\* with the larger id, and ranked first
C22_Witness ==
    /\ CalcReturned
    /\ Len(last.value) = 2
    /\ last.value[1].score = last.value[2].score
    /\ last.value[1].score > 0
    /\ last.value[1].service_id > last.value[2].service_id
    /\ NameLess(last.value[1].service_name, last.value[2].service_name)

\* add_category(name, slug) on the rows d, on PostgreSQL or on SQLite: the
\* error, or the categories rows it leaves and the id it returns
CategoryOutcome(d, name, slug, postgres) ==
    IF postgres /\ NameConflict(d, name, slug) THEN <<"IntegrityError">>
    ELSE LET w == IF postgres THEN OnConflictUpdateCategory(d, name, slug)
                  ELSE InsertOrReplaceCategory(d, name, slug)
         IN  <<"ok", w.categories, CategoryId(w, slug)>>

\* assign_service_to_category(service_id, category_id), likewise
AssignOutcome(d, service_id, category_id, postgres) ==
    IF postgres /\ DanglingReference(d, service_id, category_id)
    THEN <<"IntegrityError">>
    ELSE <<"ok", UpdateCategoryId(d.services, service_id, category_id)>>

\* C23: backend equivalence: from the rows a sequence of calls has left,
\* every add_category and assign_service_to_category call has on SQLite
\* (INSERT OR REPLACE) and on PostgreSQL (ON CONFLICT DO UPDATE) the same
\* outcome, success or error, leaves the same rows for get_categories and
\* get_all_services to read, and returns the same id; an upsert keeps the
\* id of the row on both.
C23_BackendsEquivalent ==
    /\ \A name \in CategoryNames, slug \in CategorySlugs :
          CategoryOutcome(db, name, slug, TRUE) = CategoryOutcome(db, name, slug, FALSE)
    /\ \A service_id \in 1..MaxServices, category_id \in 1..MaxCategorySeq :
          AssignOutcome(db, service_id, category_id, TRUE)
             = AssignOutcome(db, service_id, category_id, FALSE)

\* the rows of the services other than name
RowsOfOthers(d, name) ==
    LET others == {s \in d.services : s.name # name}
        ids == {s.id : s \in others}
    IN  <<others, {r \in d.features : r.service_id \in ids},
          {r \in DOMAIN d.additional_features : r.service_id \in ids}>>

\* C24: batch independence: every turn of the loop of scrape_all_services
\* adds the entry of the next registered scraper to results; when the
\* scraping or the save fails, the entry says so, no row has changed, and
\* the loop goes on with the next scraper; a save leaves the rows of the
\* other services as they were; the list returned has one entry for every
\* registered scraper, in their order.
C24_BatchIndependent ==
    [][/\ pc[1] = "scrape" =>
            LET name == Registered[Len(results) + 1]
                entry == results'[Len(results')]
            IN  /\ Len(results') = Len(results) + 1
                /\ SubSeq(results', 1, Len(results)) = results
                /\ entry.name = name
                /\ entry.ok = (last'.status = "ok")
                /\ ~entry.ok => entry.error # "" /\ TablesOf(db') = TablesOf(db)
                /\ entry.ok =>
                      /\ \E s \in db'.services :
                            s.name = name /\ s.id = entry.service_id
                      /\ RowsOfOthers(db', name) = RowsOfOthers(db, name)
                /\ pc'[1] = IF Len(results') < Len(Registered) THEN "scrape"
                            ELSE "scrape_return"
       /\ pc[1] = "scrape_return" =>
            /\ last'.op = "scrape_all_services"
            /\ last'.value = results
            /\ Len(results) = Len(Registered)
            /\ \A k \in 1..Len(results) : results[k].name = Registered[k]]_vars

\* a batch has returned: the save of its first service failed at an insert
\* into additional_features and left the rows of an earlier batch, the
\* second service was saved after that
C24_Witness ==
    /\ last.op = "scrape_all_services"
    /\ Len(last.value) >= 2
    /\ ~last.value[1].ok
    /\ last.value[1].error = "additional"
    /\ last.value[2].ok
    /\ \E s \in db.services : s.name = last.value[1].name
    /\ \E s \in db.services :
          s.name = last.value[2].name /\ s.id = last.value[2].service_id

\* C25: rank density: in every state, the ranks of the rankings rows stored
\* for a context are pairwise distinct and are exactly 1..k for its k rows,
\* also when two calculate_rankings calls of the context interleave with a
\* save_service_features that adds a service between their reads.
C25_RanksDense ==
    \A context \in Contexts :
        LET rows == RankingsOf(db, context)
        IN  /\ \A x, y \in rows : x.rank = y.rank => x = y
            /\ {r.rank : r \in rows} = 1..Cardinality(rows)

\* the step is an add_category call that succeeded for a slug that had a
\* category
CategoryReplaced ==
    /\ pc[1] = "idle"
    /\ last'.op = "add_category"
    /\ last'.status = "ok"
    /\ CategoryRow(db, last'.name) # {}

\* the ids of the services get_all_services(slug) returns
ListedIds(d, slug) ==
    LET list == AllServices(d, Slug(slug)) IN {list[k].id : k \in 1..Len(list)}

\* C26: add_category with a slug that exists keeps the id of the category,
\* on both backends, and every service get_all_services(slug) returned
\* before the call is returned after it.
C26_CategoryKeepsServices ==
    [][CategoryReplaced =>
          /\ CategoryId(db', last'.name) = CategoryId(db, last'.name)
          /\ last'.value = <<CategoryId(db, last'.name)>>
          /\ ListedIds(db, last'.name) \subseteq ListedIds(db', last'.name)]_vars

\* the rankings rows of the context carry the scores that the weight vector
\* stored for the context gives the features rows
ComputedWithStored(d, context) ==
    \A r \in RankingsOf(d, context) :
        r.score = Score(GetFeaturesForService(d, r.service_id),
                        GetFeatureWeights(d, context))

\* C27: calculate_rankings with a weights argument is all-or-nothing over
\* weights and ranks: when the call has failed, at whatever point, the
\* feature_weights rows of the context are those of before the call, so the
\* stored weight vector is the one the stored rankings were computed with
\* (no features row changes in between).
C27_WeightsAndRanksTogether ==
    (/\ last.op = "calculate_rankings"
     /\ last.status = "error"
     /\ last.given) => ComputedWithStored(db, last.context)

\* C28: every operation holds at most one connection at any moment, so
\* that as many get_all_services calls as the pool has connections can run
\* at once and all complete: none of them ends in an exhausted pool.
C28_OneConnectionEach ==
    /\ \A c \in Clients : checked_out[c] <= 1
    /\ ~(last.op = "get_all_services" /\ last.stmt = "PoolError")

\* C29: generate_all_rankings completes without error on every database,
\* one without services included, and when it has returned every
\* predefined context has DEFAULT_WEIGHTS[context] as its stored weight
\* vector and a rankings row for every service.
C29_GenerateCompletes ==
    last.op = "generate_all_rankings" =>
        /\ last.status = "ok"
        /\ \A context \in Contexts :
              /\ GetFeatureWeights(db, context) = DEFAULT_WEIGHTS[context]
              /\ {r.service_id : r \in RankingsOf(db, context)}
                    = {s.id : s \in db.services}

\* the services row of name and the features and additional_features rows
\* of its id
RowsOfService(d, name) ==
    LET own == {s \in d.services : s.name = name}
        ids == {s.id : s \in own}
    IN  <<own, {r \in d.features : r.service_id \in ids},
          {r \in DOMAIN d.additional_features : r.service_id \in ids}>>

\* C30: frame of save_service_features(record): the call changes only the
\* services row named record.name and the features and additional_features
\* rows of that service; the id and the category_id of that row stay (a new
\* row has no category), every other service and its feature rows, the
\* categories, the feature_weights rows and the rankings rows stay as they
\* were.
C30_SaveFrame ==
    [][(pc[1] = "idle" /\ last'.op = "save_service_features") =>
          LET name == last'.name
              before == {s \in db.services : s.name = name}
              after == {s \in db'.services : s.name = name}
          IN  /\ RowsOfOthers(db', name) = RowsOfOthers(db, name)
              /\ db'.categories = db.categories
              /\ db'.feature_weights = db.feature_weights
              /\ db'.rankings = db.rankings
              /\ \A s \in before : \E t \in after :
                    t.id = s.id /\ t.category_id = s.category_id
              /\ before = {} => \A t \in after : t.category_id = NULL
              /\ Cardinality(after) <= 1
              /\ last'.status = "error" =>
                    RowsOfService(db', name) = RowsOfService(db, name)]_vars

\* a service that is assigned to a category and has a stored rank was saved
\* again with other features
C30_Witness ==
    /\ last.op = "save_service_features"
    /\ last.status = "ok"
    /\ last.stmt = "replaced"
    /\ db.feature_weights # {}
    /\ \E s \in db.services :
          /\ s.name = last.name
          /\ s.category_id # NULL
          /\ \E r \in db.rankings : r.service_id = s.id
    /\ \E s \in db.services : s.name # last.name

====
